---- MODULE Spec2Model ----
(***************************************************************************)
(* Availability service: the status reconciliation use case               *)
(* (updateAvailabilityStatus), the inbound event adapters that call it,   *)
(* the outbox-backed event publisher and the outbox dispatcher            *)
(* (processOutbox).  Every await of the TypeScript code is a step of its  *)
(* own, so that store and bus failures and other invocations can fall     *)
(* between two steps of one invocation.                                    *)
(***************************************************************************)
EXTENDS Integers, Sequences, FiniteSets, TLC

\* ------------------------------------------------------------------ bounds
\* Inbound events delivered for the first time (redeliveries are not counted).
MaxEvents == 3
\* Failures injected by the environment (availability store, outbox store, bus).
MaxFaults == 2
\* Timer invocations of processOutbox.
MaxRuns == 2
\* First deliveries and injected failures while two handler invocations interleave.
MaxRaceEvents == 2
MaxRaceFaults == 1
\* Pending messages, timer invocations and injected failures while two
\* processOutbox runs overlap.
MaxPending == 2
MaxConcRuns == 2
MaxConcFaults == 2
\* Deliveries of an upstream event beyond its first one.
MaxDuplicates == 1
\* First deliveries and injected failures when the adapters are given every kind
\* of event.
MaxAdapterEvents == 2
MaxAdapterFaults == 1

\* ------------------------------------------------------- values of the code
\* JavaScript's undefined and null, kept distinct: the code compares with ===.
Undefined == "undefined"
Null == "null"

AvailabilityStatus == {"Available", "Unavailable", "Maintenance", "Retired", "Lost"}

\* String.prototype.trim on the device ids and reservation ids of the model.
Trim(s) ==
    CASE s = " " -> ""
      [] s = " D1" -> "D1"
      [] s = " R1" -> "R1"
      [] OTHER -> s

\* a ?? b
Coalesce(a, b) == IF a \in {Undefined, Null} THEN b ELSE a

\* The value of a local that holds no record (getByDeviceId returned undefined).
NoRecord ==
    [id |-> "", deviceId |-> "", status |-> "", reservationId |-> Undefined,
     lastCheckedAt |-> 0, updatedAt |-> 0]

\* const now = new Date() and the two timestamps create and update set from it.
\* As Stamp, but only updatedAt is set: lastCheckedAt keeps its value.
StampUpdatedOnly(record, t) ==
    [x \in DOMAIN record \cup {"lastCheckedAt", "updatedAt"} |->
        IF x = "updatedAt" THEN t
        ELSE IF x \in DOMAIN record THEN record[x] ELSE 0]

Stamp(record, t) ==
    [x \in DOMAIN record \cup {"lastCheckedAt", "updatedAt"} |->
        IF x \in {"lastCheckedAt", "updatedAt"} THEN t ELSE record[x]]

\* Date.prototype.toISOString, and new Date(string) on such a string: NaN (-1
\* here) when the string is not one that toISOString writes.
MaxClock == 3

toISOString(t) == "T" \o ToString(t)

parseDate(str) ==
    IF \E t \in 0..MaxClock : toISOString(t) = str
    THEN CHOOSE t \in 0..MaxClock : toISOString(t) = str
    ELSE -1

\* ------------------------------------------------------- transition engine
\* validateDeviceAvailability: the field it rejects, or "" when it accepts.
\* As validateDeviceAvailability, but a deviceId is refused only when empty.
validateUntrimmed(deviceId, status) ==
    IF deviceId = "" THEN "deviceId"
    ELSE IF status \notin AvailabilityStatus THEN "status"
    ELSE ""

validateDeviceAvailability(deviceId, status) ==
    IF deviceId = "" \/ Trim(deviceId) = "" THEN "deviceId"
    ELSE IF status \notin AvailabilityStatus THEN "status"
    ELSE ""

\* As createDeviceAvailability, but the record always starts as Available.
createAvailableDevice(deviceId, status, reservationId) ==
    [id |-> deviceId,
     deviceId |-> Trim(deviceId),
     status |-> "Available",
     reservationId |-> IF reservationId \in {Undefined, Null} THEN Undefined
                       ELSE Trim(reservationId)]

\* createDeviceAvailability: the record built (valid when validation accepts).
createDeviceAvailability(deviceId, status, reservationId) ==
    [id |-> deviceId,
     deviceId |-> Trim(deviceId),
     status |-> Coalesce(status, "Available"),
     reservationId |-> IF reservationId \in {Undefined, Null} THEN Undefined
                       ELSE Trim(reservationId)]

createThrows(deviceId, status) ==
    validateDeviceAvailability(deviceId, Coalesce(status, "Available")) # ""

\* As updateDeviceAvailability, but null keeps the existing reservationId too.
updateNeverClearing(existing, status, reservationId) ==
    [existing EXCEPT
        !.status = Coalesce(status, existing.status),
        !.reservationId = Coalesce(reservationId, existing.reservationId)]

\* updateDeviceAvailability: null clears, undefined keeps, a value replaces.
updateDeviceAvailability(existing, status, reservationId) ==
    [existing EXCEPT
        !.status = Coalesce(status, existing.status),
        !.reservationId = IF reservationId = Null THEN Undefined
                          ELSE Coalesce(reservationId, existing.reservationId)]

updateThrows(existing, status) ==
    validateDeviceAvailability(existing.deviceId, Coalesce(status, existing.status)) # ""

\* ------------------------------------------------------------ inbound events
DeviceIds == {"D1", "D2", " "}
\* Handler invocations that may be in progress at once: Event Grid invokes the
\* function once per event and does not serialise the invocations.
Handlers == {"h1", "h2"}

\* An inbound Event Grid event.  deviceId is data.deviceId of a reservation event
\* and data.id of a catalogue event ("" when the field is missing).
Event(src, eventType, deviceId, reservationId, status) ==
    [src |-> src, eventType |-> eventType, deviceId |-> deviceId,
     reservationId |-> reservationId, status |-> status]

ReservationEvents ==
    {Event("reservation", t, d, r, Undefined) :
        t \in {"Reservation.Created", "Reservation.Returned"},
        d \in DeviceIds, r \in {"R1"}}
  \cup {Event("reservation", "Reservation.Created", "D1", "R2", Undefined),
        Event("reservation", "Reservation.Created", "", "R1", Undefined),
        Event("reservation", "Reservation.Renewed", "D1", "R1", Undefined)}

CatalogueEvents ==
    {Event("catalogue", "Catalogue.Device.Upserted", d, Undefined, s) :
        d \in {"D1"}, s \in {"Maintenance", "Available"}}
  \cup {Event("catalogue", "Catalogue.Device.Deleted", "D1", Undefined, Undefined)}

InboundEvents == ReservationEvents \cup CatalogueEvents

NoEvent == Event("", "", "", Undefined, Undefined)

\* As getAvailabilityFromEvent, but an event type it does not know frees the
\* device.
getAvailabilityDefaulting(eventType) ==
    CASE eventType \in {"Reservation.Created", "Reservation.Collected"} ->
            [handled |-> TRUE, status |-> "Unavailable", clearReservation |-> FALSE]
      [] OTHER ->
            [handled |-> TRUE, status |-> "Available", clearReservation |-> TRUE]

\* As getAvailabilityFromEvent, but a return, cancellation or expiry keeps the
\* reservation on the record.
getAvailabilityKeepingReservation(eventType) ==
    CASE eventType \in {"Reservation.Created", "Reservation.Collected"} ->
            [handled |-> TRUE, status |-> "Unavailable", clearReservation |-> FALSE]
      [] eventType \in {"Reservation.Returned", "Reservation.Cancelled",
                        "Reservation.Expired"} ->
            [handled |-> TRUE, status |-> "Available", clearReservation |-> FALSE]
      [] OTHER ->
            [handled |-> FALSE, status |-> "", clearReservation |-> FALSE]

\* getAvailabilityFromEvent: handled is FALSE where the code returns null.
getAvailabilityFromEvent(eventType) ==
    CASE eventType \in {"Reservation.Created", "Reservation.Collected"} ->
            [handled |-> TRUE, status |-> "Unavailable", clearReservation |-> FALSE]
      [] eventType \in {"Reservation.Returned", "Reservation.Cancelled",
                        "Reservation.Expired"} ->
            [handled |-> TRUE, status |-> "Available", clearReservation |-> TRUE]
      [] OTHER ->
            [handled |-> FALSE, status |-> "", clearReservation |-> FALSE]

\* As mapToAvailabilityStatus, but a status outside the vocabulary takes the
\* device out of service.
mapUnknownToUnavailable(status) ==
    IF status \in AvailabilityStatus THEN status ELSE "Unavailable"

\* mapToAvailabilityStatus of the catalogue adapter.
mapToAvailabilityStatus(status) ==
    IF status \in AvailabilityStatus THEN status ELSE "Available"

\* As EventCall, but without the checks that the event carries a device id.
EventCallUnchecked(e) ==
    IF e.src = "reservation"
    THEN IF ~getAvailabilityFromEvent(e.eventType).handled THEN "none" ELSE "update"
    ELSE IF e.eventType = "Catalogue.Device.Upserted" THEN "update"
         ELSE IF e.eventType = "Catalogue.Device.Deleted" THEN "delete"
              ELSE "none"

\* The use case the adapter calls for an event: "update", "delete" or "none"
\* (missing device id, or an event type the adapter does not handle).
EventCall(e) ==
    IF e.src = "reservation"
    THEN IF e.deviceId = "" \/ ~getAvailabilityFromEvent(e.eventType).handled
         THEN "none" ELSE "update"
    ELSE IF e.eventType = "Catalogue.Device.Upserted"
         THEN IF e.deviceId = "" THEN "none" ELSE "update"
         ELSE IF e.eventType = "Catalogue.Device.Deleted"
              THEN IF e.deviceId = "" THEN "none" ELSE "delete"
              ELSE "none"

\* The newStatus argument the adapter passes to updateAvailabilityStatus.
EventStatus(e) ==
    IF e.src = "reservation" THEN getAvailabilityFromEvent(e.eventType).status
    ELSE mapToAvailabilityStatus(e.status)

\* As EventReservationId, but the catalogue adapter asks to clear the reservation.
EventReservationIdCleared(e) ==
    IF e.src = "reservation"
    THEN IF getAvailabilityFromEvent(e.eventType).clearReservation
         THEN Null ELSE e.reservationId
    ELSE Null

\* The reservationId argument: null to clear, the event's id, or omitted.
EventReservationId(e) ==
    IF e.src = "reservation"
    THEN IF getAvailabilityFromEvent(e.eventType).clearReservation
         THEN Null ELSE e.reservationId
    ELSE Undefined

\* As HandlerThrows, but the catalogue adapter raises on a failed delete as it
\* does on a failed upsert.
HandlerThrowsOnDelete(e, success, code) ==
    IF e.src = "reservation" THEN ~success /\ code # "NOT_FOUND"
    ELSE ~success

\* As HandlerThrows, but the catalogue adapter swallows a failed upsert as it
\* swallows a failed delete.
HandlerThrowsReservationOnly(e, success, code) ==
    e.src = "reservation" /\ ~success /\ code # "NOT_FOUND"

\* Whether the adapter raises (so that the trigger redelivers) on a result.
HandlerThrows(e, success, code) ==
    IF e.src = "reservation" THEN ~success /\ code # "NOT_FOUND"
    ELSE e.eventType = "Catalogue.Device.Upserted" /\ ~success

\* ------------------------------------------------------- availability store
\* CosmosAvailabilityRepo.mapToDocument / mapToDomain on the modelled fields.
mapToDocument(availability) ==
    [id |-> availability.id, deviceId |-> availability.deviceId,
     status |-> availability.status, reservationId |-> availability.reservationId,
     lastCheckedAt |-> toISOString(availability.lastCheckedAt),
     updatedAt |-> toISOString(availability.updatedAt)]

mapToDomainThrows(document) ==
    \/ document.id = "" \/ document.deviceId = "" \/ document.status = ""
    \/ document.lastCheckedAt = "" \/ document.updatedAt = ""
    \/ parseDate(document.lastCheckedAt) = -1
    \/ parseDate(document.updatedAt) = -1

mapToDomain(document) ==
    [id |-> document.id, deviceId |-> document.deviceId,
     status |-> document.status, reservationId |-> document.reservationId,
     lastCheckedAt |-> parseDate(document.lastCheckedAt),
     updatedAt |-> parseDate(document.updatedAt)]

\* container.items.upsert: the document replaces the one with the same id.
Upsert(st, document) ==
    [x \in DOMAIN st \cup {document.id} |->
        IF x = document.id THEN document ELSE st[x]]

\* container.item(deviceId, deviceId).read: the point read of getByDeviceId.
getByDeviceId(st, deviceId) ==
    IF deviceId \in DOMAIN st THEN mapToDomain(st[deviceId]) ELSE NoRecord

\* The fallback query of getByDeviceId: SELECT TOP 1 ... WHERE c.deviceId = @deviceId.
queryByDeviceId(st, deviceId) ==
    LET hits == {x \in DOMAIN st : st[x].deviceId = deviceId}
    IN IF hits = {} THEN NoRecord ELSE mapToDomain(st[CHOOSE x \in hits : TRUE])

\* As Delete, but every document of the container goes.
DeleteAll(st, deviceId) == [x \in {} |-> NoRecord]

\* container.item(deviceId, deviceId).delete; a 404 is swallowed (idempotent).
Delete(st, deviceId) == [x \in DOMAIN st \ {deviceId} |-> st[x]]

\* ------------------------------------------------------------------ outbox
\* The Availability.Changed event data built by updateAvailabilityStatus.
\* As eventData, but an absent reservationId is passed on as it is.
eventDataNoFallback(previousStatus, saved) ==
    [deviceId |-> saved.deviceId,
     previousStatus |-> previousStatus,
     newStatus |-> saved.status,
     reservationId |-> saved.reservationId,
     updatedAt |-> toISOString(saved.updatedAt)]

eventData(previousStatus, saved) ==
    [deviceId |-> saved.deviceId,
     previousStatus |-> previousStatus,
     newStatus |-> saved.status,
     reservationId |-> Coalesce(saved.reservationId, Null),
     updatedAt |-> toISOString(saved.updatedAt)]

\* OutboxEventPublisher.publish: the message handed to outboxRepo.save.  The id
\* stands for randomUUID(): fresh, since no message is ever removed.
newOutboxMessage(ob, topic, eventType, subject, data) ==
    [id |-> Len(ob) + 1, topic |-> topic, eventType |-> eventType,
     subject |-> subject, data |-> data, dataVersion |-> "1.0",
     processed |-> FALSE, error |-> "", retryCount |-> 0]

\* ---------------------------------------------------- reconciliation use case
\* "Skip if no change": the idempotence guard of updateAvailabilityStatus.
ShouldSkip(existing, newStatus, reservationId) ==
    existing.status = newStatus /\ existing.reservationId = reservationId

\* As StatusChanged, but a record that did not exist counts as unchanged.
StatusChangedOnlyForExisting(previousStatus, saved) ==
    previousStatus # Null /\ previousStatus # saved.status

\* "Publish event if status changed".
\* As StatusChanged, but every save is announced.
StatusChangedAlways(previousStatus, saved) == TRUE

StatusChanged(previousStatus, saved) == previousStatus # saved.status

\* ------------------------------------------------------------------- state
VARIABLES
    store,      \* availability container: document id -> document
    outbox,     \* outbox container: the messages, in the order they were saved
    hs,         \* per inbound-event handler invocation: its position and locals
    redeliver,  \* events the trigger holds for delivery: those whose handler raised
                \* and, in SpecReorder, those of the upstream not delivered yet
    eventsLeft, \* first deliveries of inbound events still to come
    faultsLeft, \* failures the environment may still inject
    lastCall,   \* arguments of the updateAvailabilityStatus call that returned
                \* success last, with nothing started since
    commits,    \* history: the committed status changes, in order
    saves,      \* history: (deviceId, status) of every successful save
    ds,         \* per processOutbox invocation: its position and locals
    bus,        \* event bus: outbox message id -> times the bus accepted it
    runsLeft,   \* timer invocations of processOutbox still to come
    now         \* the clock that new Date() reads, in steps of the model

vars == <<store, outbox, hs, redeliver, eventsLeft, faultsLeft, lastCall, commits,
          saves, ds, bus, runsLeft, now>>

CallArgs(deviceId, newStatus, reservationId) ==
    [deviceId |-> deviceId, newStatus |-> newStatus, reservationId |-> reservationId]

NoCall == CallArgs("", "", Undefined)

dvars == <<ds, bus, runsLeft, now>>

\* processOutbox invocations that may be in progress at once: the timer's own
\* ("p1") and that of a second instance of the function app ("p2").
Dispatchers == {"p1", "p2"}

IdleDispatcher ==
    [pc |-> "idle", outcome |-> "none", batch |-> <<>>, idx |-> 0, error |-> "",
     retry0 |-> 0, attempts |-> 0]

IdleHandler ==
    [pc |-> "idle", ev |-> NoEvent, outcome |-> "none",
     deviceId |-> "", newStatus |-> "", reservationId |-> Undefined,
     existing |-> NoRecord, previousStatus |-> Null,
     rec |-> NoRecord, saved |-> NoRecord,
     success |-> FALSE, code |-> "", data |-> NoRecord, failedAt |-> "",
     field |-> "", batch |-> <<>>, idx |-> 0,
     nSave |-> 0, nEnq |-> 0, out0 |-> 0, repeat |-> FALSE]

Init ==
    /\ store = [x \in {} |-> NoRecord]
    /\ outbox = <<>>
    /\ hs = [h \in Handlers |-> IdleHandler]
    /\ redeliver = {}
    /\ eventsLeft = MaxEvents
    /\ faultsLeft = MaxFaults
    /\ lastCall = NoCall
    /\ commits = <<>>
    /\ saves = {}
    /\ ds = [k \in Dispatchers |-> IdleDispatcher]
    /\ bus = [x \in {} |-> 0]
    /\ runsLeft = MaxRuns
    /\ now = 0

\* One more failure of a store or of the bus.
Fault == faultsLeft > 0 /\ faultsLeft' = faultsLeft - 1

\* return { success: true, data }
Succeed(s, data) ==
    [s EXCEPT !.pc = "idle", !.success = TRUE, !.code = "", !.data = data]

\* As Fail, but the error leaves updateAvailabilityStatus: there is no result.
Raise(s, at) ==
    [s EXCEPT !.pc = "idle", !.success = FALSE, !.code = "", !.failedAt = at]

\* catch (error) { return { success: false, error, code: 'INTERNAL_ERROR' } }
Fail(s, at) ==
    [s EXCEPT !.pc = "idle", !.success = FALSE, !.code = "INTERNAL_ERROR",
              !.failedAt = at]

\* The handler invocation h moves to n.  When the use case has returned
\* (n.pc = "idle") the adapter returns or raises; a raise redelivers the event.
HandlerStep(h, n) ==
    LET threw == HandlerThrows(n.ev, n.success, n.code)
        done == [n EXCEPT !.outcome = IF threw THEN "threw" ELSE "returned"]
    IN IF n.pc = "idle"
       THEN /\ hs' = [hs EXCEPT ![h] = done]
            /\ redeliver' = IF threw THEN redeliver \cup {n.ev} ELSE redeliver
            /\ lastCall' = IF n.success /\ EventCall(n.ev) = "update"
                           THEN CallArgs(n.deviceId, n.newStatus, n.reservationId)
                           ELSE NoCall
       ELSE /\ hs' = [hs EXCEPT ![h] = n]
            /\ UNCHANGED <<redeliver, lastCall>>

\* handleReservationEvent / handleCatalogueEvent up to their first await: the
\* presence check of the device id and the mapping of the event.
Begin(h, e, rd) ==
    LET call == EventCall(e)
        args == CallArgs(e.deviceId, EventStatus(e), EventReservationId(e))
        n == [IdleHandler EXCEPT
                !.ev = e,
                !.pc = CASE call = "update" -> "read"
                         [] call = "delete" -> "delete"
                         [] OTHER -> "idle",
                !.outcome = IF call = "none" THEN "dropped" ELSE "running",
                !.deviceId = e.deviceId,
                !.newStatus = IF call = "update" THEN args.newStatus ELSE "",
                !.reservationId = IF call = "update" THEN args.reservationId
                                  ELSE Undefined,
                !.out0 = Len(outbox),
                !.repeat = /\ call = "update"
                           /\ lastCall = args
                           /\ \A x \in Handlers \ {h} : hs[x].pc = "idle"]
    IN /\ hs[h].pc = "idle"
       /\ hs' = [x \in Handlers |->
                    IF x = h THEN n ELSE [hs[x] EXCEPT !.repeat = FALSE]]
       /\ lastCall' = NoCall
       /\ redeliver' = rd

\* The trigger delivers a new event.
Deliver(h, events) ==
    /\ eventsLeft > 0
    /\ \E e \in events : Begin(h, e, redeliver)
    /\ eventsLeft' = eventsLeft - 1
    /\ UNCHANGED <<store, outbox, faultsLeft, commits, saves, dvars>>

HDeliver(h) == Deliver(h, InboundEvents)

\* The trigger delivers again an event whose handler raised.
HRedeliver(h) ==
    /\ \E e \in redeliver : Begin(h, e, redeliver \ {e})
    /\ UNCHANGED <<store, outbox, eventsLeft, faultsLeft, commits, saves, dvars>>

\* updateAvailabilityStatus from the answer of getByDeviceId to the next await.
AfterRead(s, existing) ==
    IF existing # NoRecord
    THEN LET s1 == [s EXCEPT !.existing = existing,
                             !.previousStatus = existing.status]
         IN IF ShouldSkip(existing, s.newStatus, s.reservationId)
            THEN Succeed(s1, existing)
            ELSE IF updateThrows(existing, s.newStatus)
                 THEN [Fail(s1, "transition") EXCEPT
                         !.field = validateDeviceAvailability(
                                       existing.deviceId,
                                       Coalesce(s.newStatus, existing.status))]
                 ELSE [s1 EXCEPT
                         !.rec = Stamp(updateDeviceAvailability(
                                           existing, s.newStatus, s.reservationId),
                                       now),
                         !.pc = "save"]
    ELSE IF createThrows(s.deviceId, s.newStatus)
         THEN [Fail(s, "transition") EXCEPT
                 !.field = validateDeviceAvailability(
                               s.deviceId, Coalesce(s.newStatus, "Available"))]
         ELSE [s EXCEPT
                 !.rec = Stamp(createDeviceAvailability(
                                   s.deviceId, s.newStatus,
                                   Coalesce(s.reservationId, Undefined)),
                               now),
                 !.pc = "save"]

\* await deps.availabilityRepo.getByDeviceId(deviceId): the point read answers.
HRead(h) ==
    /\ hs[h].pc = "read"
    /\ HandlerStep(h, AfterRead(hs[h], getByDeviceId(store, hs[h].deviceId)))
    /\ UNCHANGED <<store, outbox, eventsLeft, faultsLeft, commits, saves, dvars>>

\* The point read fails with another error than 404 and the fallback query answers.
HReadFallback(h) ==
    /\ hs[h].pc = "read"
    /\ Fault
    /\ HandlerStep(h, AfterRead(hs[h], queryByDeviceId(store, hs[h].deviceId)))
    /\ UNCHANGED <<store, outbox, eventsLeft, commits, saves, dvars>>

\* The point read and the fallback query both fail: getByDeviceId raises.
HReadFault(h) ==
    /\ hs[h].pc = "read"
    /\ Fault
    /\ HandlerStep(h, Fail(hs[h], "read"))
    /\ UNCHANGED <<store, outbox, eventsLeft, commits, saves, dvars>>

\* updateAvailabilityStatus from the answer of save to the next await.
AfterSave(s, saved) ==
    LET s1 == [s EXCEPT !.saved = saved, !.nSave = @ + 1]
    IN IF StatusChanged(s.previousStatus, saved)
       THEN [s1 EXCEPT !.pc = "publish"]
       ELSE Succeed(s1, saved)

\* As HSave, but with a version check: a save of a record read before another
\* write to the same document is refused with a conflict.
HSaveIfUnchanged(h) ==
    LET doc == mapToDocument(hs[h].rec)
        before == IF doc.id \in DOMAIN store THEN store[doc.id].status ELSE Null
        stale == getByDeviceId(store, doc.id) # hs[h].existing
    IN /\ hs[h].pc = "save"
       /\ store' = IF stale THEN store ELSE Upsert(store, doc)
       /\ commits' = IF ~stale /\ before # doc.status
                     THEN Append(commits, [deviceId |-> doc.deviceId,
                                           previousStatus |-> before,
                                           newStatus |-> doc.status])
                     ELSE commits
       /\ saves' = IF stale THEN saves ELSE saves \cup {<<doc.deviceId, doc.status>>}
       /\ HandlerStep(h, IF stale \/ mapToDomainThrows(doc)
                         THEN Fail(hs[h], "save")
                         ELSE AfterSave(hs[h], mapToDomain(doc)))
       /\ UNCHANGED <<outbox, eventsLeft, faultsLeft, dvars>>

\* await deps.availabilityRepo.save(record): the upsert is applied and answers
\* with the document written, which save maps back to the domain.
HSave(h) ==
    LET doc == mapToDocument(hs[h].rec)
        before == IF doc.id \in DOMAIN store THEN store[doc.id].status ELSE Null
    IN /\ hs[h].pc = "save"
       /\ store' = Upsert(store, doc)
       /\ commits' = IF before # doc.status
                     THEN Append(commits, [deviceId |-> doc.deviceId,
                                           previousStatus |-> before,
                                           newStatus |-> doc.status])
                     ELSE commits
       /\ saves' = saves \cup {<<doc.deviceId, doc.status>>}
       /\ HandlerStep(h, IF mapToDomainThrows(doc)
                         THEN Fail(hs[h], "save")
                         ELSE AfterSave(hs[h], mapToDomain(doc)))
       /\ UNCHANGED <<outbox, eventsLeft, faultsLeft, dvars>>

\* As HSaveFault, but the error of save is swallowed and the call goes on.
HSaveFaultSwallowed(h) ==
    /\ hs[h].pc = "save"
    /\ Fault
    /\ HandlerStep(h, AfterSave(hs[h], hs[h].rec))
    /\ UNCHANGED <<store, outbox, eventsLeft, commits, saves, dvars>>

\* The upsert fails: save raises and nothing is written.
HSaveFault(h) ==
    /\ hs[h].pc = "save"
    /\ Fault
    /\ HandlerStep(h, Fail(hs[h], "save"))
    /\ UNCHANGED <<store, outbox, eventsLeft, commits, saves, dvars>>

\* CosmosOutboxRepo.save: the message is added to the outbox container.
outboxSave(ob, message) == Append(ob, message)

\* As HPublish, but the event goes straight to the bus and not to the outbox.
HPublishDirect(h) ==
    LET s == hs[h]
    IN /\ s.pc = "publish"
       /\ bus' = [x \in DOMAIN bus \cup {Len(outbox) + 1} |->
                    IF x \in DOMAIN bus THEN bus[x] + 1 ELSE 1]
       /\ HandlerStep(h, Succeed([s EXCEPT !.nEnq = @ + 1], s.saved))
       /\ UNCHANGED <<now, store, outbox, eventsLeft, faultsLeft, commits, saves, ds,
                      runsLeft>>

\* await deps.eventPublisher.publish(...): OutboxEventPublisher saves the message.
HPublish(h) ==
    LET s == hs[h]
        message == newOutboxMessage(outbox, "Availability", "Availability.Changed",
                                    s.saved.deviceId,
                                    eventData(s.previousStatus, s.saved))
    IN /\ s.pc = "publish"
       /\ outbox' = outboxSave(outbox, message)
       /\ HandlerStep(h, Succeed([s EXCEPT !.nEnq = @ + 1], s.saved))
       /\ UNCHANGED <<store, eventsLeft, faultsLeft, commits, saves, dvars>>

\* The outbox save fails: publish raises after the record was saved.
HPublishFault(h) ==
    /\ hs[h].pc = "publish"
    /\ Fault
    /\ HandlerStep(h, Fail(hs[h], "publish"))
    /\ UNCHANGED <<store, outbox, eventsLeft, commits, saves, dvars>>

\* As HDelete, but the 404 of a record that is not there is not swallowed.
HDeleteNotFoundFails(h) ==
    LET found == hs[h].deviceId \in DOMAIN store
    IN /\ hs[h].pc = "delete"
       /\ store' = Delete(store, hs[h].deviceId)
       /\ HandlerStep(h, [hs[h] EXCEPT !.pc = "idle", !.success = found,
                                       !.failedAt = IF found THEN "" ELSE "delete"])
       /\ UNCHANGED <<outbox, eventsLeft, faultsLeft, commits, saves, dvars>>

\* deleteAvailability: await deps.availabilityRepo.delete(deviceId).
HDelete(h) ==
    /\ hs[h].pc = "delete"
    /\ store' = Delete(store, hs[h].deviceId)
    /\ HandlerStep(h, [hs[h] EXCEPT !.pc = "idle", !.success = TRUE])
    /\ UNCHANGED <<outbox, eventsLeft, faultsLeft, commits, saves, dvars>>

\* The delete fails with another error than 404: a failure result, not raised.
HDeleteFault(h) ==
    /\ hs[h].pc = "delete"
    /\ Fault
    /\ HandlerStep(h, [hs[h] EXCEPT !.pc = "idle", !.success = FALSE,
                                    !.failedAt = "delete"])
    /\ UNCHANGED <<store, outbox, eventsLeft, commits, saves, dvars>>

\* --------------------------------------------------------- outbox dispatcher
\* As BatchSize, with another limit handed to listUnprocessed.
BatchSizeWrong == 20 + 5

\* outboxRepo.listUnprocessed(20) in processOutbox.
BatchSize == 20

PendingIds(ob) == {ob[i].id : i \in {j \in DOMAIN ob : ~ob[j].processed}}

\* The subsets of S with k elements.
RECURSIVE KSubsets(_, _)
KSubsets(S, k) ==
    IF k = 0 THEN {{}}
    ELSE IF S = {} THEN {}
    ELSE LET x == CHOOSE y \in S : TRUE
         IN {T \cup {x} : T \in KSubsets(S \ {x}, k - 1)} \cup KSubsets(S \ {x}, k)

\* CosmosOutboxRepo.listUnprocessed: the answers the store may give, each
\* min(batchSize, pending) unprocessed messages; which ones is the store's choice.
listUnprocessed(ob, batchSize) ==
    LET pending == PendingIds(ob)
        extra == IF Cardinality(pending) > batchSize
                 THEN Cardinality(pending) - batchSize ELSE 0
        ids == [i \in DOMAIN ob |-> ob[i].id]
    IN {SelectSeq(ids, LAMBDA x : x \in pending \ X) : X \in KSubsets(pending, extra)}

\* CosmosOutboxRepo.markAsProcessed.
markAsProcessed(ob, id) ==
    [i \in DOMAIN ob |->
        IF ob[i].id = id THEN [ob[i] EXCEPT !.processed = TRUE] ELSE ob[i]]

\* CosmosOutboxRepo.markAsFailed: increments the retry count, records the error.
markAsFailed(ob, id, error) ==
    [i \in DOMAIN ob |->
        IF ob[i].id = id
        THEN [ob[i] EXCEPT !.processed = FALSE, !.retryCount = @ + 1,
                           !.error = error]
        ELSE ob[i]]

\* The message the for loop of processOutbox is at.
Current(d) == d.batch[d.idx]

\* The outbox message with the given id.
Message(ob, id) == ob[CHOOSE i \in DOMAIN ob : ob[i].id = id]

\* Times the bus accepted the message with the given id.
BusCount(b, id) == IF id \in DOMAIN b THEN b[id] ELSE 0

\* The bus accepts one more publish of the message with the given id.
BusAccept(b, id) ==
    [x \in DOMAIN b \cup {id} |-> IF x = id THEN BusCount(b, id) + 1 ELSE b[x]]

\* The for loop moves to the next message, or the run ends after the last one.
Advance(d) ==
    IF d.idx = Len(d.batch)
    THEN [d EXCEPT !.pc = "idle", !.outcome = "finished", !.idx = @ + 1,
                   !.error = ""]
    ELSE [d EXCEPT !.pc = "publish", !.idx = @ + 1, !.error = ""]

\* The timer fires: listUnprocessed answers; an empty answer ends the run.
DStart(k) ==
    /\ ds[k].pc = "idle"
    /\ runsLeft > 0
    /\ runsLeft' = runsLeft - 1
    /\ \E batch \in listUnprocessed(outbox, BatchSize) :
          ds' = [ds EXCEPT ![k] =
                    IF Len(batch) = 0
                    THEN [IdleDispatcher EXCEPT !.outcome = "empty"]
                    ELSE [IdleDispatcher EXCEPT !.pc = "publish",
                              !.outcome = "running", !.batch = batch, !.idx = 1]]
    /\ UNCHANGED <<now, store, outbox, hs, redeliver, eventsLeft, faultsLeft, lastCall,
                   commits, saves, bus>>

\* The timer fires and listUnprocessed raises: the outer catch ends the run.
DListFault(k) ==
    /\ ds[k].pc = "idle"
    /\ runsLeft > 0
    /\ runsLeft' = runsLeft - 1
    /\ Fault
    /\ ds' = [ds EXCEPT ![k] = [IdleDispatcher EXCEPT !.outcome = "listFailed"]]
    /\ UNCHANGED <<now, store, outbox, hs, redeliver, eventsLeft, lastCall, commits,
                   saves, bus>>

\* As DPublish, but a message the bus accepted before is not published again.
DPublishOnce(k) ==
    LET id == Current(ds[k])
    IN /\ ds[k].pc = "publish"
       /\ bus' = IF BusCount(bus, id) > 0 THEN bus ELSE BusAccept(bus, id)
       /\ ds' = [ds EXCEPT ![k].pc = "mark",
                           ![k].retry0 = Message(outbox, id).retryCount,
                           ![k].attempts = @ + 1]
       /\ UNCHANGED <<now, store, outbox, hs, redeliver, eventsLeft, faultsLeft,
                      lastCall, commits, saves, runsLeft>>

\* await eventGridPublisher.publish(...): the bus accepts the message.
DPublish(k) ==
    LET id == Current(ds[k])
    IN /\ ds[k].pc = "publish"
       /\ bus' = BusAccept(bus, id)
       /\ ds' = [ds EXCEPT ![k].pc = "mark",
                           ![k].retry0 = Message(outbox, id).retryCount,
                           ![k].attempts = @ + 1]
       /\ UNCHANGED <<now, store, outbox, hs, redeliver, eventsLeft, faultsLeft,
                      lastCall, commits, saves, runsLeft>>

\* As DPublishFault, but the failed message is left without bookkeeping.
DPublishFaultUnrecorded(k) ==
    /\ ds[k].pc = "publish"
    /\ Fault
    /\ ds' = [ds EXCEPT ![k] = Advance(ds[k])]
    /\ UNCHANGED <<now, store, outbox, hs, redeliver, eventsLeft, lastCall, commits,
                   saves, bus, runsLeft>>

\* As DPublishFault, but the error of the bus is swallowed.
DPublishFaultSwallowed(k) ==
    /\ ds[k].pc = "publish"
    /\ Fault
    /\ ds' = [ds EXCEPT ![k].pc = "mark",
                        ![k].retry0 = Message(outbox, Current(ds[k])).retryCount,
                        ![k].attempts = @ + 1]
    /\ UNCHANGED <<now, store, outbox, hs, redeliver, eventsLeft, lastCall, commits,
                   saves, bus, runsLeft>>

\* The publish raises: the inner catch takes over with the error's message.
DPublishFault(k) ==
    /\ ds[k].pc = "publish"
    /\ Fault
    /\ ds' = [ds EXCEPT ![k].pc = "fail", ![k].error = "publish failed",
                        ![k].retry0 = Message(outbox, Current(ds[k])).retryCount,
                        ![k].attempts = @ + 1]
    /\ UNCHANGED <<now, store, outbox, hs, redeliver, eventsLeft, lastCall, commits,
                   saves, bus, runsLeft>>

\* As DMark, but every message of the batch is marked at once.
RECURSIVE markBatch(_, _, _)
markBatch(ob, batch, n) ==
    IF n = 0 THEN ob ELSE markAsProcessed(markBatch(ob, batch, n - 1), batch[n])

DMarkBatch(k) ==
    /\ ds[k].pc = "mark"
    /\ outbox' = markBatch(outbox, ds[k].batch, Len(ds[k].batch))
    /\ ds' = [ds EXCEPT ![k] = Advance(ds[k])]
    /\ UNCHANGED <<now, store, hs, redeliver, eventsLeft, faultsLeft, lastCall, commits,
                   saves, bus, runsLeft>>

\* await outboxRepo.markAsProcessed(message.id).
DMark(k) ==
    /\ ds[k].pc = "mark"
    /\ outbox' = markAsProcessed(outbox, Current(ds[k]))
    /\ ds' = [ds EXCEPT ![k] = Advance(ds[k])]
    /\ UNCHANGED <<now, store, hs, redeliver, eventsLeft, faultsLeft, lastCall, commits,
                   saves, bus, runsLeft>>

\* As DMarkFault, but the failure of markAsProcessed is only logged.
DMarkFaultIgnored(k) ==
    /\ ds[k].pc = "mark"
    /\ Fault
    /\ ds' = [ds EXCEPT ![k] = Advance(ds[k])]
    /\ UNCHANGED <<now, store, outbox, hs, redeliver, eventsLeft, lastCall, commits,
                   saves, bus, runsLeft>>

\* markAsProcessed raises after the bus accepted the message.
DMarkFault(k) ==
    /\ ds[k].pc = "mark"
    /\ Fault
    /\ ds' = [ds EXCEPT ![k].pc = "fail", ![k].error = "markAsProcessed failed"]
    /\ UNCHANGED <<now, store, outbox, hs, redeliver, eventsLeft, lastCall, commits,
                   saves, bus, runsLeft>>

\* catch: await outboxRepo.markAsFailed(message.id, errorMessage).
DFail(k) ==
    /\ ds[k].pc = "fail"
    /\ outbox' = markAsFailed(outbox, Current(ds[k]), ds[k].error)
    /\ ds' = [ds EXCEPT ![k] = Advance(ds[k])]
    /\ UNCHANGED <<now, store, hs, redeliver, eventsLeft, faultsLeft, lastCall, commits,
                   saves, bus, runsLeft>>

\* As DFailFault, but no outer catch takes the error: the run raises.
DFailFaultRaised(k) ==
    /\ ds[k].pc = "fail"
    /\ Fault
    /\ ds' = [ds EXCEPT ![k].pc = "idle", ![k].outcome = "raised"]
    /\ UNCHANGED <<now, store, outbox, hs, redeliver, eventsLeft, lastCall, commits,
                   saves, bus, runsLeft>>

\* markAsFailed raises inside the inner catch: the error leaves the for loop and
\* the outer catch ends the run.
DFailFault(k) ==
    /\ ds[k].pc = "fail"
    /\ Fault
    /\ ds' = [ds EXCEPT ![k].pc = "idle", ![k].outcome = "aborted"]
    /\ UNCHANGED <<now, store, outbox, hs, redeliver, eventsLeft, lastCall, commits,
                   saves, bus, runsLeft>>

DispatcherNext(k) ==
    \/ DStart(k) \/ DListFault(k)
    \/ DPublish(k) \/ DPublishFault(k)
    \/ DMark(k) \/ DMarkFault(k)
    \/ DFail(k) \/ DFailFault(k)

HandlerSteps(h) ==
    \/ HRedeliver(h)
    \/ HRead(h) \/ HReadFallback(h) \/ HReadFault(h)
    \/ HSave(h) \/ HSaveFault(h)
    \/ HPublish(h) \/ HPublishFault(h)
    \/ HDelete(h) \/ HDeleteFault(h)

\* ---------------------------------------------------------- specifications
\* The reconciliation side: the inbound adapters and the use cases they call,
\* one invocation at a time.
Next == HDeliver("h1") \/ HandlerSteps("h1")

Spec == Init /\ [][Next]_vars

\* Reconciliation of one device's reservation events together with the dispatcher.
OutboxEvents ==
    {e \in InboundEvents :
        /\ e.deviceId = "D1"
        /\ e.eventType \in {"Reservation.Created", "Reservation.Returned",
                             "Catalogue.Device.Deleted"}
        /\ e.reservationId \in {"R1", Undefined}}

HDeliverOutbox(h) == Deliver(h, OutboxEvents)

NextOutbox ==
    \/ HDeliverOutbox("h1") \/ HandlerSteps("h1")
    \/ DispatcherNext("p1")

SpecOutbox == Init /\ [][NextOutbox]_vars

\* The same with two dispatcher instances whose runs may overlap.
NextConc ==
    \/ HDeliverOutbox("h1") \/ HandlerSteps("h1")
    \/ \E k \in Dispatchers : DispatcherNext(k)

SpecConc == Init /\ [][NextConc]_vars

\* A backlog: the state after n reservation events for D1, Created and Returned in
\* turn, were reconciled without a failure and before the timer fired.
BacklogStatus(i) == IF i % 2 = 1 THEN "Unavailable" ELSE "Available"

BacklogRecord(i) ==
    [id |-> "D1", deviceId |-> "D1", status |-> BacklogStatus(i),
     reservationId |-> IF i % 2 = 1 THEN "R1" ELSE Undefined,
     lastCheckedAt |-> 0, updatedAt |-> 0]

BacklogMessage(i) ==
    [newOutboxMessage(<<>>, "Availability", "Availability.Changed", "D1",
                      eventData(IF i = 1 THEN Null ELSE BacklogStatus(i - 1),
                                BacklogRecord(i)))
        EXCEPT !.id = i]

Backlog == BatchSize + 1

InitBacklog ==
    /\ store = Upsert([x \in {} |-> NoRecord], mapToDocument(BacklogRecord(Backlog)))
    /\ outbox = [i \in 1..Backlog |-> BacklogMessage(i)]
    /\ hs = [h \in Handlers |-> IdleHandler]
    /\ redeliver = {}
    /\ eventsLeft = 0
    /\ faultsLeft = MaxFaults
    /\ lastCall = NoCall
    /\ commits = [i \in 1..Backlog |->
                    [deviceId |-> "D1",
                     previousStatus |-> IF i = 1 THEN Null ELSE BacklogStatus(i - 1),
                     newStatus |-> BacklogStatus(i)]]
    /\ saves = {<<"D1", BacklogStatus(i)>> : i \in 1..Backlog}
    /\ ds = [k \in Dispatchers |-> IdleDispatcher]
    /\ bus = [x \in {} |-> 0]
    /\ runsLeft = 1
    /\ now = 0

\* One run of the dispatcher alone, on the backlog.
NextBacklog == DispatcherNext("p1")

SpecBacklog == InitBacklog /\ [][NextBacklog]_vars

\* Two processOutbox runs that may overlap, on an outbox that holds pending
\* messages of earlier reconciliations.
InitPending ==
    /\ store = Upsert([x \in {} |-> NoRecord], mapToDocument(BacklogRecord(MaxPending)))
    /\ outbox = [i \in 1..MaxPending |-> BacklogMessage(i)]
    /\ hs = [h \in Handlers |-> IdleHandler]
    /\ redeliver = {}
    /\ eventsLeft = 0
    /\ faultsLeft = MaxConcFaults
    /\ lastCall = NoCall
    /\ commits = [i \in 1..MaxPending |->
                    [deviceId |-> "D1",
                     previousStatus |-> IF i = 1 THEN Null ELSE BacklogStatus(i - 1),
                     newStatus |-> BacklogStatus(i)]]
    /\ saves = {<<"D1", BacklogStatus(i)>> : i \in 1..MaxPending}
    /\ ds = [k \in Dispatchers |-> IdleDispatcher]
    /\ bus = [x \in {} |-> 0]
    /\ runsLeft = MaxConcRuns
    /\ now = 0

NextDispatchers == \E k \in Dispatchers : DispatcherNext(k)

SpecDispatchers == InitPending /\ [][NextDispatchers]_vars

\* Two handler invocations whose steps interleave, on the events of one device.
RaceEvents ==
    {e \in InboundEvents :
        /\ e.deviceId = "D1"
        /\ e.eventType \in {"Reservation.Created", "Reservation.Returned",
                             "Catalogue.Device.Upserted", "Catalogue.Device.Deleted"}
        /\ e.reservationId \in {"R1", Undefined}
        /\ e.status \in {"Maintenance", Undefined}}

HDeliverRace(h) == Deliver(h, RaceEvents)

NextRace == \E h \in Handlers : HDeliverRace(h) \/ HandlerSteps(h)

InitRace ==
    /\ store = [x \in {} |-> NoRecord]
    /\ outbox = <<>>
    /\ hs = [h \in Handlers |-> IdleHandler]
    /\ redeliver = {}
    /\ eventsLeft = MaxRaceEvents
    /\ faultsLeft = MaxRaceFaults
    /\ lastCall = NoCall
    /\ commits = <<>>
    /\ saves = {}
    /\ ds = [k \in Dispatchers |-> IdleDispatcher]
    /\ bus = [x \in {} |-> 0]
    /\ runsLeft = 0
    /\ now = 0

SpecRace == InitRace /\ [][NextRace]_vars

\* What happened upstream to device D1, in its true order: reserved, returned,
\* then put into maintenance by the catalogue.
Upstream ==
    <<Event("reservation", "Reservation.Created", "D1", "R1", Undefined),
      Event("reservation", "Reservation.Returned", "D1", "R1", Undefined),
      Event("catalogue", "Catalogue.Device.Upserted", "D1", Undefined, "Maintenance")>>

UpstreamEvents == {Upstream[i] : i \in DOMAIN Upstream}

\* The trigger holds the upstream events and delivers them in any order, one
\* after the other, and some of them more than once; no store fails.
InitReorder ==
    /\ store = [x \in {} |-> NoRecord]
    /\ outbox = <<>>
    /\ hs = [h \in Handlers |-> IdleHandler]
    /\ redeliver = UpstreamEvents
    /\ eventsLeft = MaxDuplicates
    /\ faultsLeft = 0
    /\ lastCall = NoCall
    /\ commits = <<>>
    /\ saves = {}
    /\ ds = [k \in Dispatchers |-> IdleDispatcher]
    /\ bus = [x \in {} |-> 0]
    /\ runsLeft = 0
    /\ now = 0

\* A duplicate of an upstream event that was delivered before.
HDeliverDuplicate(h) == Deliver(h, UpstreamEvents \ redeliver)

NextReorder ==
    \/ HDeliverDuplicate("h1") \/ HRedeliver("h1")
    \/ HRead("h1") \/ HSave("h1") \/ HPublish("h1")

SpecReorder == InitReorder /\ [][NextReorder]_vars

\* Every kind of event the two adapters can be given, for one device: each
\* reservation event type and one the adapter does not know, a reservation id
\* with a leading blank, a blank device id, each catalogue status and one outside the vocabulary, a
\* catalogue event type the adapter does not know, and events without device id.
AdapterEvents ==
    {Event("reservation", t, "D1", "R1", Undefined) :
        t \in {"Reservation.Created", "Reservation.Collected", "Reservation.Returned",
               "Reservation.Cancelled", "Reservation.Expired", "Reservation.Renewed"}}
  \cup {Event("reservation", "Reservation.Created", "D1", " R1", Undefined),
        Event("reservation", "Reservation.Created", " ", "R1", Undefined),
        Event("reservation", "Reservation.Created", "", "R1", Undefined),
        Event("reservation", "Reservation.Renewed", "", "R1", Undefined)}
  \cup {Event("catalogue", "Catalogue.Device.Upserted", "D1", Undefined, st) :
        st \in AvailabilityStatus \cup {"Broken"}}
  \cup {Event("catalogue", t, d, Undefined, Undefined) :
        t \in {"Catalogue.Device.Deleted", "Catalogue.Device.Renamed"},
        d \in {"D1", ""}}
  \cup {Event("catalogue", "Catalogue.Device.Upserted", "", Undefined, "Available")}

HDeliverAdapter(h) == Deliver(h, AdapterEvents)

InitAdapters ==
    /\ store = [x \in {} |-> NoRecord]
    /\ outbox = <<>>
    /\ hs = [h \in Handlers |-> IdleHandler]
    /\ redeliver = {}
    /\ eventsLeft = MaxAdapterEvents
    /\ faultsLeft = MaxAdapterFaults
    /\ lastCall = NoCall
    /\ commits = <<>>
    /\ saves = {}
    /\ ds = [k \in Dispatchers |-> IdleDispatcher]
    /\ bus = [x \in {} |-> 0]
    /\ runsLeft = 0
    /\ now = 0

NextAdapters == HDeliverAdapter("h1") \/ HandlerSteps("h1")

SpecAdapters == InitAdapters /\ [][NextAdapters]_vars

\* One call of updateAvailabilityStatus on arguments of every shape: a device id
\* that is plain, padded with a blank, blank or empty, or that of a document with
\* a blank deviceId; a status of the enumeration, one outside it, or none; a
\* reservation id that is omitted, null, empty or a value.
CallDeviceIds == {"D1", " D1", " ", "", "D2"}
CallStatuses == {"Available", "Unavailable", "Broken", Undefined}
CallReservationIds == {Undefined, Null, "", "R1"}

\* The stores the call may find: empty, the record of D1 as an earlier
\* Reservation.Created left it, or a document written under id D2 from elsewhere
\* whose deviceId is blank.
EntityStores ==
    {[x \in {} |-> NoRecord],
     [x \in {"D1"} |->
        mapToDocument([id |-> "D1", deviceId |-> "D1", status |-> "Unavailable",
                       reservationId |-> "R1", lastCheckedAt |-> 0, updatedAt |-> 0])],
     [x \in {"D2"} |->
        mapToDocument([id |-> "D2", deviceId |-> " ", status |-> "Available",
                       reservationId |-> Undefined, lastCheckedAt |-> 0,
                       updatedAt |-> 0])]}

InitEntity ==
    /\ store \in EntityStores
    /\ outbox = <<>>
    /\ \E d \in CallDeviceIds, st \in CallStatuses, r \in CallReservationIds :
          hs = [h \in Handlers |->
                  IF h = "h1"
                  THEN [IdleHandler EXCEPT !.pc = "read", !.outcome = "running",
                                           !.deviceId = d, !.newStatus = st,
                                           !.reservationId = r]
                  ELSE IdleHandler]
    /\ redeliver = {}
    /\ eventsLeft = 0
    /\ faultsLeft = 0
    /\ lastCall = NoCall
    /\ commits = <<>>
    /\ saves = {}
    /\ ds = [k \in Dispatchers |-> IdleDispatcher]
    /\ bus = [x \in {} |-> 0]
    /\ runsLeft = 0
    /\ now \in 0..MaxClock

NextEntity == HRead("h1") \/ HSave("h1") \/ HPublish("h1")

SpecEntity == InitEntity /\ [][NextEntity]_vars

\* OutboxEventPublisher.publishBatch, called with a list of events.
MaxBatch == 3
MaxBatchFaults == 1

\* The events a caller may put in a batch; the last gives no dataVersion.
BatchEvents ==
    {[topic |-> "Availability", eventType |-> "Availability.Changed",
      subject |-> "D1", data |-> eventData(Null, BacklogRecord(1)),
      dataVersion |-> "1.0"],
     [topic |-> "Availability", eventType |-> "Availability.Changed",
      subject |-> "D1", data |-> eventData("Unavailable", BacklogRecord(2)),
      dataVersion |-> "2.0"],
     [topic |-> "Availability", eventType |-> "Availability.Changed",
      subject |-> "D1", data |-> eventData("Available", BacklogRecord(3)),
      dataVersion |-> Undefined]}

Batches == UNION {[1..n -> BatchEvents] : n \in 0..MaxBatch}

\* this.publish(event.topic, ..., event.dataVersion): dataVersion defaults to
\* '1.0' when the event gives none.
batchMessage(ob, event) ==
    [newOutboxMessage(ob, event.topic, event.eventType, event.subject, event.data)
        EXCEPT !.dataVersion = IF event.dataVersion = Undefined THEN "1.0"
                               ELSE event.dataVersion]

\* As PublishBatchFault, but the failed save is skipped and the loop goes on.
PublishBatchFaultSkipped(h) ==
    /\ hs[h].pc = "batch"
    /\ hs[h].idx <= Len(hs[h].batch)
    /\ Fault
    /\ hs' = [hs EXCEPT ![h].idx = @ + 1]
    /\ UNCHANGED <<store, outbox, redeliver, eventsLeft, lastCall, commits, saves,
                   dvars>>

\* for (const event of events) { await this.publish(...) }: the save of the
\* event the loop is at succeeds.
PublishBatchSave(h) ==
    /\ hs[h].pc = "batch"
    /\ hs[h].idx <= Len(hs[h].batch)
    /\ outbox' = outboxSave(outbox, batchMessage(outbox, hs[h].batch[hs[h].idx]))
    /\ hs' = [hs EXCEPT ![h].idx = @ + 1, ![h].nEnq = @ + 1]
    /\ UNCHANGED <<store, redeliver, eventsLeft, faultsLeft, lastCall, commits,
                   saves, dvars>>

\* The save of the event the loop is at fails: the rejection of the awaited
\* publish leaves the loop and publishBatch.
PublishBatchFault(h) ==
    /\ hs[h].pc = "batch"
    /\ hs[h].idx <= Len(hs[h].batch)
    /\ Fault
    /\ hs' = [hs EXCEPT ![h].pc = "idle", ![h].outcome = "threw"]
    /\ UNCHANGED <<store, outbox, redeliver, eventsLeft, lastCall, commits, saves,
                   dvars>>

\* The loop is through: publishBatch resolves.
PublishBatchReturn(h) ==
    /\ hs[h].pc = "batch"
    /\ hs[h].idx > Len(hs[h].batch)
    /\ hs' = [hs EXCEPT ![h].pc = "idle", ![h].outcome = "returned"]
    /\ UNCHANGED <<store, outbox, redeliver, eventsLeft, faultsLeft, lastCall,
                   commits, saves, dvars>>

InitBatch ==
    /\ store = [x \in {} |-> NoRecord]
    /\ outbox \in {<<>>, <<BacklogMessage(1)>>}
    /\ \E b \in Batches :
          hs = [h \in Handlers |->
                  IF h = "h1"
                  THEN [IdleHandler EXCEPT !.pc = "batch", !.outcome = "running",
                                           !.batch = b, !.idx = 1,
                                           !.out0 = Len(outbox)]
                  ELSE IdleHandler]
    /\ redeliver = {}
    /\ eventsLeft = 0
    /\ faultsLeft = MaxBatchFaults
    /\ lastCall = NoCall
    /\ commits = <<>>
    /\ saves = {}
    /\ ds = [k \in Dispatchers |-> IdleDispatcher]
    /\ bus = [x \in {} |-> 0]
    /\ runsLeft = 0
    /\ now = 0

NextBatch ==
    \/ PublishBatchSave("h1") \/ PublishBatchFault("h1") \/ PublishBatchReturn("h1")

SpecBatch == InitBatch /\ [][NextBatch]_vars

\* Reconciliations of one device, D1, with no store failure and no deletion:
\* every event of the adapters that leads to an updateAvailabilityStatus call.
MaxChainEvents == 3
MaxInterleaved == 2

ChainEvents == {e \in AdapterEvents : e.deviceId = "D1" /\ EventCall(e) = "update"}

HDeliverChain(h) == Deliver(h, ChainEvents)

InitChain ==
    /\ store = [x \in {} |-> NoRecord]
    /\ outbox = <<>>
    /\ hs = [h \in Handlers |-> IdleHandler]
    /\ redeliver = {}
    /\ eventsLeft = MaxChainEvents
    /\ faultsLeft = 0
    /\ lastCall = NoCall
    /\ commits = <<>>
    /\ saves = {}
    /\ ds = [k \in Dispatchers |-> IdleDispatcher]
    /\ bus = [x \in {} |-> 0]
    /\ runsLeft = 0
    /\ now = 0

\* One after another: the next event is delivered when the handler has returned.
NextChain == HDeliverChain("h1") \/ HRead("h1") \/ HSave("h1") \/ HPublish("h1")

SpecChain == InitChain /\ [][NextChain]_vars

\* The same reconciliations with invocations that may overlap.
InitInterleaved ==
    /\ store = [x \in {} |-> NoRecord]
    /\ outbox = <<>>
    /\ hs = [h \in Handlers |-> IdleHandler]
    /\ redeliver = {}
    /\ eventsLeft = MaxInterleaved
    /\ faultsLeft = 0
    /\ lastCall = NoCall
    /\ commits = <<>>
    /\ saves = {}
    /\ ds = [k \in Dispatchers |-> IdleDispatcher]
    /\ bus = [x \in {} |-> 0]
    /\ runsLeft = 0
    /\ now = 0

NextInterleaved ==
    \E h \in Handlers : HDeliverChain(h) \/ HRead(h) \/ HSave(h) \/ HPublish(h)

SpecInterleaved == InitInterleaved /\ [][NextInterleaved]_vars

\* processOutbox invoked again and again on an outbox whose oldest messages, more
\* than one batch of them, are refused by the bus every time and were refused
\* before, followed by one message the bus accepts.  No store operation fails.
PoisonIds == 1..Backlog
GoodId == Backlog + 1

\* retryCount is read by no code: counts above MaxRetryShown are folded into it.
MaxRetryShown == 1

FoldRetries(ob) ==
    [i \in DOMAIN ob |->
        [ob[i] EXCEPT !.retryCount = IF @ > MaxRetryShown THEN MaxRetryShown ELSE @]]

InitLive ==
    /\ store = Upsert([x \in {} |-> NoRecord], mapToDocument(BacklogRecord(GoodId)))
    /\ outbox = [i \in 1..GoodId |->
                    IF i \in PoisonIds
                    THEN [BacklogMessage(i) EXCEPT !.retryCount = MaxRetryShown,
                                                   !.error = "publish failed"]
                    ELSE BacklogMessage(i)]
    /\ hs = [h \in Handlers |-> IdleHandler]
    /\ redeliver = {}
    /\ eventsLeft = 0
    /\ faultsLeft = 0
    /\ lastCall = NoCall
    /\ commits = <<>>
    /\ saves = {}
    /\ ds = [k \in Dispatchers |-> IdleDispatcher]
    /\ bus = [x \in {} |-> 0]
    /\ runsLeft = 0
    /\ now = 0

\* The timer fires (every five minutes, without end): listUnprocessed answers.
LStart(k) ==
    /\ ds[k].pc = "idle"
    /\ \E batch \in listUnprocessed(outbox, BatchSize) :
          ds' = [ds EXCEPT ![k] =
                    IF Len(batch) = 0
                    THEN [IdleDispatcher EXCEPT !.outcome = "empty"]
                    ELSE [IdleDispatcher EXCEPT !.pc = "publish",
                              !.outcome = "running", !.batch = batch, !.idx = 1]]
    /\ UNCHANGED <<now, store, outbox, hs, redeliver, eventsLeft, faultsLeft, lastCall,
                   commits, saves, bus, runsLeft>>

\* The bus accepts the message the loop is at.
LPublish(k) ==
    /\ ds[k].pc = "publish"
    /\ Current(ds[k]) \notin PoisonIds
    /\ DPublish(k)

\* The bus refuses the message the loop is at, as it does every time.
LPublishRefused(k) ==
    /\ ds[k].pc = "publish"
    /\ Current(ds[k]) \in PoisonIds
    /\ ds' = [ds EXCEPT ![k].pc = "fail", ![k].error = "publish failed",
                        ![k].retry0 = Message(outbox, Current(ds[k])).retryCount,
                        ![k].attempts = @ + 1]
    /\ UNCHANGED <<now, store, outbox, hs, redeliver, eventsLeft, faultsLeft, lastCall,
                   commits, saves, bus, runsLeft>>

LMark(k) == DMark(k)

LFail(k) ==
    /\ ds[k].pc = "fail"
    /\ outbox' = FoldRetries(markAsFailed(outbox, Current(ds[k]), ds[k].error))
    /\ ds' = [ds EXCEPT ![k] = Advance(ds[k])]
    /\ UNCHANGED <<now, store, hs, redeliver, eventsLeft, faultsLeft, lastCall, commits,
                   saves, bus, runsLeft>>

NextLive ==
    \/ LStart("p1") \/ LPublish("p1") \/ LPublishRefused("p1")
    \/ LMark("p1") \/ LFail("p1")

\* Every awaited call of a run answers, and the timer fires again and again.
LoopStep == LPublish("p1") \/ LPublishRefused("p1") \/ LMark("p1") \/ LFail("p1")

SpecLive ==
    InitLive /\ [][NextLive]_vars /\ WF_vars(LoopStep) /\ []<><<LStart("p1")>>_vars

\* One call of updateAvailabilityStatus or of deleteAvailability for a device,
\* on a store that holds the records of D1 and D2 and none of D3, and an outbox
\* that holds an earlier message; at most MaxFrameFaults store calls fail.
MaxFrameFaults == 1

FrameDeviceIds == {"D1", "D2", "D3"}

FrameStore ==
    [x \in {"D1", "D2"} |->
        mapToDocument([id |-> x, deviceId |-> x,
                       status |-> IF x = "D1" THEN "Unavailable" ELSE "Available",
                       reservationId |-> IF x = "D1" THEN "R1" ELSE Undefined,
                       lastCheckedAt |-> 0, updatedAt |-> 0])]

InitFrame ==
    /\ store = FrameStore
    /\ outbox = <<BacklogMessage(1)>>
    /\ \E d \in FrameDeviceIds :
          \/ \E st \in {"Available", "Unavailable"}, r \in {Undefined, Null, "R1"} :
                hs = [h \in Handlers |->
                        IF h = "h1"
                        THEN [IdleHandler EXCEPT !.pc = "read", !.outcome = "running",
                                                 !.deviceId = d, !.newStatus = st,
                                                 !.reservationId = r, !.out0 = 1]
                        ELSE IdleHandler]
          \/ hs = [h \in Handlers |->
                     IF h = "h1"
                     THEN [IdleHandler EXCEPT !.pc = "delete", !.outcome = "running",
                                              !.deviceId = d, !.out0 = 1]
                     ELSE IdleHandler]
    /\ redeliver = {}
    /\ eventsLeft = 0
    /\ faultsLeft = MaxFrameFaults
    /\ lastCall = NoCall
    /\ commits = <<>>
    /\ saves = {}
    /\ ds = [k \in Dispatchers |-> IdleDispatcher]
    /\ bus = [x \in {} |-> 0]
    /\ runsLeft = 0
    /\ now \in 0..MaxClock

NextFrame ==
    \/ HRead("h1") \/ HReadFallback("h1") \/ HReadFault("h1")
    \/ HSave("h1") \/ HSaveFault("h1")
    \/ HPublish("h1") \/ HPublishFault("h1")
    \/ HDelete("h1") \/ HDeleteFault("h1")

SpecFrame == InitFrame /\ [][NextFrame]_vars

\* ------------------------------------------------------------------ claims
\* An updateAvailabilityStatus call of handler h that has returned to its adapter.
Returned(h) == hs[h].pc = "idle" /\ EventCall(hs[h].ev) = "update"

\* No handler is running and no event waits for redelivery.
Quiescent == redeliver = {} /\ \A h \in Handlers : hs[h].pc = "idle"

\* Occurrences of x in the sequence q.
Count(q, x) == Cardinality({i \in DOMAIN q : q[i] = x})

\* The status changes the outbox announces, in the order they were enqueued.
Announced ==
    [i \in DOMAIN outbox |->
        [deviceId |-> outbox[i].data.deviceId,
         previousStatus |-> outbox[i].data.previousStatus,
         newStatus |-> outbox[i].data.newStatus]]

\* C1: a call of updateAvailabilityStatus saves at most once and enqueues at most
\* one event, and, as long as no store has failed, a call that repeats the
\* arguments of the call that returned success just before it, with nothing in
\* between, saves nothing and enqueues nothing.
C1_Idempotence ==
    \A h \in Handlers :
        /\ hs[h].nSave <= 1
        /\ hs[h].nEnq <= 1
        /\ hs[h].repeat /\ faultsLeft = MaxFaults =>
              hs[h].nSave = 0 /\ Len(outbox) = hs[h].out0

\* C2: a call that returned success has added exactly one Availability.Changed
\* message to the outbox when it saved a record whose status differs from the
\* status it read (no record read counts as different), and none otherwise.
C2_EventOnChange ==
    \A h \in Handlers :
        Returned(h) /\ hs[h].success =>
            LET s == hs[h]
                changed == /\ s.nSave = 1
                           /\ \/ s.existing = NoRecord
                              \/ s.existing.status # store[s.deviceId].status
            IN IF changed
               THEN /\ Len(outbox) = s.out0 + 1
                    /\ outbox[Len(outbox)].eventType = "Availability.Changed"
                    /\ outbox[Len(outbox)].subject = s.saved.deviceId
               ELSE Len(outbox) = s.out0

\* C2 witness: a call returned success after saving a change of reservationId
\* alone, and the outbox did not grow.
C2_Witness ==
    \E h \in Handlers :
        /\ Returned(h) /\ hs[h].success /\ hs[h].nSave = 1
        /\ hs[h].existing # NoRecord
        /\ hs[h].existing.status = hs[h].saved.status
        /\ hs[h].existing.reservationId = "R1"
        /\ hs[h].saved.reservationId = "R2"
        /\ Len(outbox) = hs[h].out0

\* C3: once the handlers are done and nothing waits for redelivery, every
\* committed status change has its Availability.Changed event in the outbox.
C3_NoLostEvents ==
    Quiescent =>
        \A i \in DOMAIN commits : Count(commits, commits[i]) <= Count(Announced, commits[i])

\* C4: a call that failed at the read, in the transition function or at the save
\* has saved nothing and enqueued nothing, and every message in the outbox
\* announces a status that a successful save wrote for that device.
C4_Inv ==
    /\ \A h \in Handlers :
          hs[h].failedAt \in {"read", "transition", "save"} =>
              /\ hs[h].nSave = 0 /\ hs[h].nEnq = 0
              /\ Len(outbox) = hs[h].out0
    /\ \A i \in DOMAIN outbox :
          <<outbox[i].data.deviceId, outbox[i].data.newStatus>> \in saves

\* C4, on the steps: the read step, and a step that ends the call with a failure
\* of the read, the transition function or the save, leave the availability
\* store and the outbox as they were.
C4_Step ==
    \A h \in Handlers :
        /\ hs[h].pc = "read" /\ hs'[h] # hs[h] => store' = store /\ outbox' = outbox
        /\ hs[h].pc = "save" /\ hs'[h].failedAt = "save" =>
              store' = store /\ outbox' = outbox

C4_NoEventForUncommitted == []C4_Inv /\ [][C4_Step]_vars

\* C4 witness: a call failed at the save while an earlier event is in the outbox.
C4_Witness ==
    \E h \in Handlers :
        /\ hs[h].pc = "idle" /\ hs[h].failedAt = "save"
        /\ Len(outbox) > 0

\* C5: when the for loop of processOutbox leaves a message, either the publish
\* and markAsProcessed succeeded and the message is processed, or the dispatch
\* failed and the message is pending, with retryCount one greater than when the
\* attempt began and a non-empty error.
C5_Step ==
    \A k \in Dispatchers :
        ds[k].pc # "idle" /\ ds'[k].idx = ds[k].idx + 1 =>
            LET after == Message(outbox', Current(ds[k]))
            IN \/ ds[k].pc = "mark" /\ after.processed
               \/ /\ ds[k].pc = "fail"
                  /\ ~after.processed
                  /\ after.retryCount = ds[k].retry0 + 1
                  /\ after.error # ""

C6_FailureIsolation ==
    \A k \in Dispatchers :
        ds[k].pc = "idle" /\ ds[k].outcome # "none" => ds[k].idx >= Len(ds[k].batch)

\* C7: when markAsProcessed fails after the bus accepted the message, the message
\* stays pending; a run fetches pending messages only, all of them when they fit
\* the batch; and the run publishes each message it is at, whether or not the bus
\* accepted that message before.
C7_Step ==
    \A k \in Dispatchers :
        LET d == ds[k]
        IN /\ d.pc = "mark" /\ ds'[k].pc = "fail" =>
                 /\ ~Message(outbox', Current(d)).processed
                 /\ BusCount(bus, Current(d)) >= 1
           /\ d.pc = "idle" /\ ds'[k].pc = "publish" =>
                 LET fetched == {ds'[k].batch[i] : i \in DOMAIN ds'[k].batch}
                 IN /\ fetched \subseteq PendingIds(outbox)
                    /\ Cardinality(PendingIds(outbox)) <= 20 =>
                           fetched = PendingIds(outbox)
           /\ d.pc = "publish" /\ ds'[k] # d =>
                 \/ /\ ds'[k].pc = "mark"
                    /\ BusCount(bus', Current(d)) = BusCount(bus, Current(d)) + 1
                 \/ ds'[k].pc = "fail" /\ bus' = bus

C7_Republish == [][C7_Step]_vars

\* C7 witness: a message whose markAsProcessed failed was accepted by the bus a
\* second time.
C7_Witness ==
    \E i \in DOMAIN outbox :
        /\ outbox[i].retryCount >= 1
        /\ outbox[i].error = "markAsProcessed failed"
        /\ BusCount(bus, outbox[i].id) = 2

\* C8: every processed message was accepted by the bus at least once, and no step
\* removes a message from the outbox or changes its id or its envelope.
C8_Inv ==
    \A i \in DOMAIN outbox : outbox[i].processed => BusCount(bus, outbox[i].id) >= 1

Envelope(m) ==
    [id |-> m.id, topic |-> m.topic, eventType |-> m.eventType,
     subject |-> m.subject, data |-> m.data, dataVersion |-> m.dataVersion]

C8_Step ==
    /\ Len(outbox') >= Len(outbox)
    /\ \A i \in DOMAIN outbox : Envelope(outbox'[i]) = Envelope(outbox[i])

C8_NeverDropped == []C8_Inv /\ [][C8_Step]_vars

\* C8 witness: one message is processed and another is still pending.
C8_Witness ==
    \E i, j \in DOMAIN outbox :
        /\ outbox[i].processed /\ BusCount(bus, outbox[i].id) >= 1
        /\ ~outbox[j].processed

\* C9: a processed message stays processed in every later state.
C9_Step == \A i \in DOMAIN outbox : outbox[i].processed => outbox'[i].processed

C9_ProcessedIsTerminal == [][C9_Step]_vars

\* C10: a run of processOutbox fetches and attempts at most 20 messages, and the
\* first run on 21 pending messages, ended without a failure, leaves exactly 20
\* messages processed and exactly 1 pending.
C10_BatchBound ==
    \A k \in Dispatchers :
        /\ Len(ds[k].batch) <= 20
        /\ ds[k].attempts <= 20
        /\ ds[k].outcome = "finished" /\ Len(outbox) = 21
              /\ faultsLeft = MaxFaults =>
              /\ ds[k].attempts = 20
              /\ Cardinality({i \in DOMAIN outbox : outbox[i].processed}) = 20
              /\ Cardinality(PendingIds(outbox)) = 1

\* C10 witness: the first run on 21 pending messages ended without a failure.
C10_Witness ==
    /\ Len(outbox) = 21
    /\ ds["p1"].outcome = "finished" /\ ds["p1"].attempts = 20
    /\ faultsLeft = MaxFaults
    /\ Cardinality(PendingIds(outbox)) = 1

\* C11: a save whose record was read before another invocation wrote the same
\* document is accepted like any other (it fails only when the store fails), the
\* document stored right after a save is the one that save wrote, and nothing but
\* a save or a delete changes the store: the save that ran last decides.
C11_Step ==
    /\ \A h \in Handlers :
          hs[h].pc = "save" /\ hs'[h].pc # "save" /\ faultsLeft' = faultsLeft =>
              /\ hs'[h].failedAt # "save"
              /\ hs'[h].nSave = hs[h].nSave + 1
              /\ hs[h].rec.id \in DOMAIN store'
              /\ store'[hs[h].rec.id] = mapToDocument(hs[h].rec)
    /\ store' # store =>
          \E h \in Handlers :
              /\ hs[h].pc \in {"save", "delete"}
              /\ hs'[h].pc \in {"idle", "publish"}

C11_LastWriteWins == [][C11_Step]_vars

\* C11 witness: two invocations for D1 both read no record before either saved,
\* both saved without a failure, and the store holds the Available record of the
\* one that saved last although the other one's event was delivered later.
C11_Witness ==
    /\ faultsLeft = MaxRaceFaults
    /\ \A h \in Handlers :
          /\ hs[h].pc = "idle" /\ hs[h].nSave = 1 /\ hs[h].deviceId = "D1"
          /\ hs[h].existing = NoRecord
    /\ hs["h1"].saved.status = "Unavailable"
    /\ hs["h2"].saved.status = "Available"
    /\ store["D1"].status = "Available"
    /\ Len(commits) = 2 /\ commits[2].newStatus = "Available"

\* C12: with two processOutbox runs that may overlap, every message is pending
\* or processed, every processed message was accepted by the bus at least once,
\* a message is marked processed only after the bus accepted it, and no step
\* removes a message or changes its id or its envelope.
C12_Inv ==
    \A i \in DOMAIN outbox :
        /\ outbox[i].processed \in BOOLEAN
        /\ outbox[i].processed => BusCount(bus, outbox[i].id) >= 1

C12_Step ==
    /\ Len(outbox') = Len(outbox)
    /\ \A i \in DOMAIN outbox :
          /\ Envelope(outbox'[i]) = Envelope(outbox[i])
          /\ outbox'[i].processed /\ ~outbox[i].processed =>
                /\ BusCount(bus, outbox[i].id) >= 1
                /\ \E k \in Dispatchers :
                      ds[k].pc = "mark" /\ Current(ds[k]) = outbox[i].id

C12_ConcurrentDispatchers == []C12_Inv /\ [][C12_Step]_vars

\* C12 witness: without any failure, two overlapping runs fetched the same pending
\* message and the bus accepted it from both.
C12_Witness ==
    /\ faultsLeft = MaxConcFaults
    /\ ds["p1"].pc = "mark" /\ ds["p2"].pc = "mark"
    /\ Current(ds["p1"]) = Current(ds["p2"])
    /\ BusCount(bus, Current(ds["p1"])) = 2
    /\ ~Message(outbox, Current(ds["p1"])).processed

\* C13: once every upstream event of D1 has been delivered, in whatever order and
\* with whatever duplicates, and the handlers are done, the stored status of D1
\* is the one the last upstream event implies.
C13_Convergence ==
    Quiescent /\ eventsLeft = 0 =>
        /\ "D1" \in DOMAIN store
        /\ store["D1"].status = EventStatus(Upstream[Len(Upstream)])

\* What a call of updateAvailabilityStatus that found no record must leave
\* behind when the created record is to carry the reservation id rid: the record
\* saved under the device id with the requested status, and one more message in
\* the outbox, an Availability.Changed from null to the requested status.
Created(h, rid) ==
    LET s == hs[h]
    IN /\ s.nSave = 1
       /\ s.saved.status = s.newStatus
       /\ s.saved.reservationId = rid
       /\ s.deviceId \in DOMAIN store
       /\ store[s.deviceId] = mapToDocument(s.saved)
       /\ Len(outbox) = s.out0 + 1
       /\ outbox[Len(outbox)].eventType = "Availability.Changed"
       /\ outbox[Len(outbox)].data.deviceId = s.saved.deviceId
       /\ outbox[Len(outbox)].data.previousStatus = Null
       /\ outbox[Len(outbox)].data.newStatus = s.newStatus

\* C14, as claimed: a call that found no record and returned success created the
\* record with the requested status and the requested reservationId (none when
\* null or omitted), and enqueued exactly one event null -> requested status.
C14_LazyCreation ==
    \A h \in Handlers :
        Returned(h) /\ hs[h].success /\ hs[h].existing = NoRecord =>
            Created(h, Coalesce(hs[h].reservationId, Undefined))

\* C14, amended: the same, where the created record carries the requested
\* reservationId with the blanks around it removed.
C14_LazyCreationTrimmed ==
    \A h \in Handlers :
        Returned(h) /\ hs[h].success /\ hs[h].existing = NoRecord =>
            Created(h, IF hs[h].reservationId \in {Undefined, Null} THEN Undefined
                       ELSE Trim(hs[h].reservationId))

\* C14 witness: Reservation.Created for the unknown device D1 with R1 left the
\* record {Unavailable, R1} and one event null -> Unavailable.
C14_Witness ==
    /\ Returned("h1") /\ hs["h1"].success /\ hs["h1"].existing = NoRecord
    /\ hs["h1"].ev.eventType = "Reservation.Created"
    /\ hs["h1"].reservationId = "R1"
    /\ store["D1"].status = "Unavailable" /\ store["D1"].reservationId = "R1"
    /\ Len(outbox) = 1
    /\ outbox[1].data.previousStatus = Null
    /\ outbox[1].data.newStatus = "Unavailable"

\* The handler invocation h is at, or past, the use case call for a reservation
\* event of one of the given types that carries a device id.
Reserving(h, types) ==
    /\ hs[h].ev.src = "reservation" /\ hs[h].ev.deviceId # ""
    /\ hs[h].ev.eventType \in types

\* C15: for Reservation.Created and Reservation.Collected the adapter calls the
\* use case with Unavailable and the event's reservationId, and for
\* Reservation.Returned, Cancelled and Expired with Available and null; a call
\* that returned success left the record with that status, with the event's
\* reservationId when a record was there before (without one after a return,
\* cancellation or expiry), and a return, cancellation or expiry of an Unavailable
\* device added exactly one event Unavailable -> Available.
C15_ReservationMapping ==
    \A h \in Handlers :
        LET s == hs[h]
            taking == Reserving(h, {"Reservation.Created", "Reservation.Collected"})
            giving == Reserving(h, {"Reservation.Returned", "Reservation.Cancelled",
                                    "Reservation.Expired"})
        IN /\ taking => /\ s.outcome # "dropped"
                         /\ s.deviceId = s.ev.deviceId
                         /\ s.newStatus = "Unavailable"
                         /\ s.reservationId = s.ev.reservationId
           /\ giving => /\ s.outcome # "dropped"
                         /\ s.deviceId = s.ev.deviceId
                         /\ s.newStatus = "Available"
                         /\ s.reservationId = Null
           /\ taking /\ s.pc = "idle" /\ s.success =>
                 /\ store[s.deviceId].status = "Unavailable"
                 /\ s.existing # NoRecord =>
                        store[s.deviceId].reservationId = s.ev.reservationId
           /\ giving /\ s.pc = "idle" /\ s.success =>
                 /\ store[s.deviceId].status = "Available"
                 /\ store[s.deviceId].reservationId = Undefined
                 /\ s.existing.status = "Unavailable" =>
                        /\ Len(outbox) = s.out0 + 1
                        /\ outbox[Len(outbox)].data.previousStatus = "Unavailable"
                        /\ outbox[Len(outbox)].data.newStatus = "Available"
                        /\ outbox[Len(outbox)].data.reservationId = Null

\* C15 witness: the record {D1, Unavailable, R1} received Reservation.Returned and
\* became {D1, Available, no reservationId}, with one event to Available.
C15_Witness ==
    /\ hs["h1"].pc = "idle" /\ hs["h1"].success
    /\ hs["h1"].ev.eventType = "Reservation.Returned"
    /\ hs["h1"].existing.status = "Unavailable"
    /\ hs["h1"].existing.reservationId = "R1"
    /\ store["D1"].status = "Available" /\ store["D1"].reservationId = Undefined
    /\ Len(outbox) = hs["h1"].out0 + 1
    /\ outbox[Len(outbox)].data.newStatus = "Available"

\* C16: for a Catalogue.Device.Upserted event with a device id the adapter calls
\* the use case with the availability status named like the catalogue status for
\* Available, Unavailable, Maintenance, Retired and Lost, with Available for any
\* other catalogue status, and without a reservationId; a call that returned
\* success left the record with that status, and when it changed the status of an
\* existing record it added exactly one event whose previousStatus is the status
\* the record had.
C16_CatalogueMapping ==
    \A h \in Handlers :
        LET s == hs[h]
            expected == IF s.ev.status \in {"Available", "Unavailable", "Maintenance",
                                            "Retired", "Lost"}
                        THEN s.ev.status ELSE "Available"
        IN s.ev.eventType = "Catalogue.Device.Upserted" /\ s.ev.deviceId # "" =>
              /\ s.outcome # "dropped"
              /\ s.deviceId = s.ev.deviceId
              /\ s.newStatus = expected
              /\ s.reservationId = Undefined
              /\ s.pc = "idle" /\ s.success =>
                    /\ store[s.deviceId].status = expected
                    /\ s.existing # NoRecord /\ s.existing.status # expected =>
                          /\ store[s.deviceId].reservationId = s.existing.reservationId
                          /\ Len(outbox) = s.out0 + 1
                          /\ outbox[Len(outbox)].data.previousStatus = s.existing.status
                          /\ outbox[Len(outbox)].data.newStatus = expected

\* C16 witness: the record {D1, Available} received an upsert with status
\* Maintenance and became {D1, Maintenance}, with one event from Available.
C16_Witness ==
    /\ hs["h1"].pc = "idle" /\ hs["h1"].success
    /\ hs["h1"].ev.eventType = "Catalogue.Device.Upserted"
    /\ hs["h1"].ev.status = "Maintenance"
    /\ hs["h1"].existing.status = "Available"
    /\ store["D1"].status = "Maintenance"
    /\ Len(outbox) = hs["h1"].out0 + 1
    /\ outbox[Len(outbox)].data.previousStatus = "Available"
    /\ outbox[Len(outbox)].data.newStatus = "Maintenance"

\* C17: a handler given a reservation event without deviceId, or a catalogue
\* event without id, returns at once: it never reads, saves, deletes or enqueues,
\* the step that delivers the event leaves the store and the outbox as they
\* were, and the event is never held for redelivery.
C17_Inv ==
    /\ \A h \in Handlers :
          hs[h].ev.src # "" /\ hs[h].ev.deviceId = "" =>
              /\ hs[h].pc = "idle" /\ hs[h].outcome = "dropped"
              /\ hs[h].nSave = 0 /\ hs[h].nEnq = 0
              /\ Len(outbox) = hs[h].out0
    /\ \A e \in redeliver : e.deviceId # ""

C17_Step ==
    \A h \in Handlers :
        hs'[h].ev # hs[h].ev /\ hs'[h].ev.deviceId = "" =>
            store' = store /\ outbox' = outbox /\ redeliver' = redeliver

C17_MalformedDropped == []C17_Inv /\ [][C17_Step]_vars

\* C17 witness: a Catalogue.Device.Deleted event without id was dropped while the
\* store holds a record, which is still there.
C17_Witness ==
    /\ hs["h1"].ev.eventType = "Catalogue.Device.Deleted"
    /\ hs["h1"].ev.deviceId = ""
    /\ hs["h1"].outcome = "dropped"
    /\ "D1" \in DOMAIN store

\* The event is of a type its adapter has no case for.
UnknownType(e) ==
    \/ /\ e.src = "reservation"
       /\ e.eventType \notin {"Reservation.Created", "Reservation.Collected",
                                "Reservation.Returned", "Reservation.Cancelled",
                                "Reservation.Expired"}
    \/ /\ e.src = "catalogue"
       /\ e.eventType \notin {"Catalogue.Device.Upserted", "Catalogue.Device.Deleted"}

\* C18: a handler given an event of a type its adapter has no case for returns
\* normally without calling a use case, and the step that delivers the event
\* leaves the availability store and the outbox as they were.
C18_Inv ==
    \A h \in Handlers :
        UnknownType(hs[h].ev) =>
            /\ hs[h].pc = "idle" /\ hs[h].outcome = "dropped"
            /\ hs[h].ev \notin redeliver

C18_Step ==
    \A h \in Handlers :
        hs'[h].ev # hs[h].ev /\ UnknownType(hs'[h].ev) =>
            store' = store /\ outbox' = outbox

C18_UnknownIgnored == []C18_Inv /\ [][C18_Step]_vars

\* C18 witness: Reservation.Renewed for D1 was ignored while D1 is on record and
\* its event waits in the outbox.
C18_Witness ==
    /\ hs["h1"].ev.eventType = "Reservation.Renewed"
    /\ hs["h1"].ev.deviceId = "D1"
    /\ hs["h1"].outcome = "dropped"
    /\ "D1" \in DOMAIN store
    /\ Len(outbox) = 1

\* C19: a deleteAvailability call that the store did not fail returns success
\* whether or not the device had a record, and leaves no record for the device.
C19_Inv ==
    \A h \in Handlers :
        /\ hs[h].pc = "idle" /\ EventCall(hs[h].ev) = "delete"
        /\ hs[h].failedAt = ""
        => hs[h].success /\ hs[h].deviceId \notin DOMAIN store

C19_Step ==
    \A h \in Handlers :
        hs[h].pc = "delete" /\ hs'[h].pc = "idle" /\ faultsLeft' = faultsLeft =>
            /\ hs'[h].success /\ hs'[h].outcome = "returned"
            /\ hs[h].deviceId \notin DOMAIN store'
            /\ \A x \in DOMAIN store : x # hs[h].deviceId =>
                   x \in DOMAIN store' /\ store'[x] = store[x]
            /\ outbox' = outbox

C19_DeleteIdempotent == []C19_Inv /\ [][C19_Step]_vars

\* C19 witness: after the last delivery, a Catalogue.Device.Deleted for D1 on a
\* store that never held a record, the delete call returned success.
C19_Witness ==
    /\ hs["h1"].pc = "idle" /\ hs["h1"].ev.eventType = "Catalogue.Device.Deleted"
    /\ hs["h1"].deviceId = "D1" /\ hs["h1"].success
    /\ saves = {} /\ store = [x \in {} |-> NoRecord]
    /\ eventsLeft = 0 /\ faultsLeft = MaxAdapterFaults

\* C20: every updateAvailabilityStatus call that ended has a result: success, or
\* a failure with code INTERNAL_ERROR, whether the read, a transition function,
\* the save or the outbox save failed; and a failure of the save or of the
\* outbox save ends the call at once with that failure result.
C20_Inv ==
    \A h \in Handlers :
        EventCall(hs[h].ev) = "update" /\ hs[h].pc = "idle" =>
            \/ hs[h].success /\ hs[h].failedAt = "" /\ hs[h].code = ""
            \/ /\ ~hs[h].success
               /\ hs[h].failedAt \in {"read", "transition", "save", "publish"}
               /\ hs[h].code = "INTERNAL_ERROR"

C20_Step ==
    \A h \in Handlers :
        /\ hs[h].pc \in {"save", "publish"}
        /\ faultsLeft' < faultsLeft
        /\ hs'[h].pc # hs[h].pc
        => /\ hs'[h].pc = "idle"
           /\ ~hs'[h].success /\ hs'[h].code = "INTERNAL_ERROR"

C20_NeverRaises == []C20_Inv /\ [][C20_Step]_vars

\* C20 witness: a call whose save the store failed returned INTERNAL_ERROR, and
\* the adapter raised on that result.
C20_Witness ==
    /\ hs["h1"].pc = "idle" /\ EventCall(hs["h1"].ev) = "update"
    /\ hs["h1"].failedAt = "save" /\ hs["h1"].code = "INTERNAL_ERROR"
    /\ hs["h1"].outcome = "threw"


\* C21: a call that fails validation in the transition engine is reported with
\* code VALIDATION_ERROR, and the adapter that made it returns without raising,
\* so the event is not held for redelivery.
C21_ValidationNotRetried ==
    \A h \in Handlers :
        hs[h].pc = "idle" /\ hs[h].failedAt = "transition" =>
            /\ hs[h].code = "VALIDATION_ERROR"
            /\ hs[h].outcome # "threw"
            /\ hs[h].ev \notin redeliver

\* C22: the reservation adapter raises for every failed result but NOT_FOUND and
\* returns normally for NOT_FOUND and for success; the catalogue upsert branch
\* raises for every failed result; and whenever a call made for an event returns
\* INTERNAL_ERROR the handler raises and the event is held for redelivery.
C22_Codes == {"NOT_FOUND", "VALIDATION_ERROR", "INTERNAL_ERROR"}

C22_Inv ==
    /\ \A e \in AdapterEvents :
          EventCall(e) = "update" =>
              /\ HandlerThrows(e, FALSE, "INTERNAL_ERROR")
              /\ ~HandlerThrows(e, TRUE, "")
              /\ e.src = "reservation" =>
                    \A c \in C22_Codes :
                        HandlerThrows(e, FALSE, c) <=> c # "NOT_FOUND"
    /\ \A h \in Handlers :
          /\ hs[h].pc = "idle" /\ EventCall(hs[h].ev) = "update"
          /\ ~hs[h].success /\ hs[h].code = "INTERNAL_ERROR"
          => hs[h].outcome = "threw"

C22_Step ==
    \A h \in Handlers :
        /\ hs[h].pc # "idle" /\ hs'[h].pc = "idle"
        /\ EventCall(hs'[h].ev) = "update"
        /\ ~hs'[h].success /\ hs'[h].code = "INTERNAL_ERROR"
        => hs'[h].outcome = "threw" /\ hs'[h].ev \in redeliver'

C22_RetryPolicy == []C22_Inv /\ [][C22_Step]_vars

\* C22 witness: the read of a Catalogue.Device.Upserted call failed, the call
\* returned INTERNAL_ERROR, the handler raised and the event waits for redelivery.
C22_Witness ==
    \E h \in Handlers :
        /\ hs[h].pc = "idle"
        /\ hs[h].ev.eventType = "Catalogue.Device.Upserted"
        /\ hs[h].failedAt = "read" /\ hs[h].code = "INTERNAL_ERROR"
        /\ hs[h].outcome = "threw"
        /\ hs[h].ev \in redeliver

\* C23: createDeviceAvailability (on the given deviceId, status defaulting to
\* Available) and updateDeviceAvailability (on the existing record's deviceId,
\* status defaulting to the existing one) fail with field deviceId when the
\* deviceId is empty or blank after trimming, with field status when the deviceId
\* is sound and the status lies outside the enumeration, and otherwise succeed
\* with a record of sound deviceId and enumerated status; a create without status
\* yields Available.
C23_Field(deviceId, status) ==
    IF Trim(deviceId) = "" THEN "deviceId"
    ELSE IF status \notin {"Available", "Unavailable", "Maintenance", "Retired", "Lost"}
         THEN "status"
         ELSE ""

C23_Input(s) ==
    IF s.existing = NoRecord
    THEN C23_Field(s.deviceId, IF s.newStatus = Undefined THEN "Available"
                                ELSE s.newStatus)
    ELSE C23_Field(s.existing.deviceId,
                   IF s.newStatus = Undefined THEN s.existing.status
                   ELSE s.newStatus)

C23_TransitionValidation ==
    /\ \A d \in CallDeviceIds, st \in CallStatuses \cup AvailabilityStatus :
          /\ createThrows(d, st) <=>
                C23_Field(d, IF st = Undefined THEN "Available" ELSE st) # ""
          /\ ~createThrows(d, Undefined) =>
                createDeviceAvailability(d, Undefined, Undefined).status = "Available"
    /\ \A h \in Handlers :
          /\ hs[h].failedAt = "transition" =>
                hs[h].field # "" /\ hs[h].field = C23_Input(hs[h])
          /\ hs[h].pc = "save" =>
                /\ C23_Input(hs[h]) = ""
                /\ Trim(hs[h].rec.deviceId) # ""
                /\ hs[h].rec.status \in AvailabilityStatus
                /\ hs[h].existing = NoRecord /\ hs[h].newStatus = Undefined =>
                      hs[h].rec.status = "Available"

\* C23 witness: an update of a stored document whose deviceId is blank, asked to
\* take an enumerated status, was refused with field deviceId.
C23_Witness ==
    \E h \in Handlers :
        /\ hs[h].existing # NoRecord
        /\ hs[h].newStatus \in AvailabilityStatus
        /\ hs[h].failedAt = "transition"
        /\ hs[h].field = "deviceId"

\* C24: the record updateDeviceAvailability builds keeps the existing
\* reservationId when none is given, has no reservationId when null or the empty
\* string is given, and has the given reservationId otherwise.
C24_ThreeWay ==
    \A h \in Handlers :
        hs[h].pc = "save" /\ hs[h].existing # NoRecord =>
            hs[h].rec.reservationId =
                CASE hs[h].reservationId = Undefined -> hs[h].existing.reservationId
                  [] hs[h].reservationId \in {Null, ""} -> Undefined
                  [] OTHER -> hs[h].reservationId

\* C25: every record the transition engine builds and every record the use case
\* has stored has id equal to deviceId, and no two stored documents carry the
\* same deviceId.
C25_Identity ==
    /\ \A h \in Handlers :
          /\ hs[h].pc = "save" => hs[h].rec.id = hs[h].rec.deviceId
          /\ hs[h].nSave > 0 => hs[h].saved.id = hs[h].saved.deviceId
    /\ \A x, y \in DOMAIN store :
          store[x].deviceId = store[y].deviceId => x = y

\* C30: every record createDeviceAvailability or updateDeviceAvailability returns
\* has lastCheckedAt and updatedAt both equal to the time of the call, also when
\* the update changes neither status nor reservationId; and such an update of a
\* valid record is never refused.
C30_NoOp(s) ==
    /\ s.existing # NoRecord
    /\ validateDeviceAvailability(s.existing.deviceId, s.existing.status) = ""
    /\ s.newStatus \in {Undefined, s.existing.status}
    /\ s.reservationId \in {Undefined, s.existing.reservationId}

C30_TimestampRefresh ==
    \A h \in Handlers :
        /\ hs[h].pc = "save" =>
              hs[h].rec.lastCheckedAt = now /\ hs[h].rec.updatedAt = now
        /\ C30_NoOp(hs[h]) =>
              /\ hs[h].failedAt # "transition"
              /\ ~updateThrows(hs[h].existing, hs[h].newStatus)
              /\ Stamp(updateDeviceAvailability(hs[h].existing, hs[h].newStatus,
                                                hs[h].reservationId), now)
                     = [hs[h].existing EXCEPT !.lastCheckedAt = now,
                                              !.updatedAt = now]

\* C30 witness: an update that changes neither status nor reservationId of a
\* record stamped earlier is about to be saved with both timestamps at the time
\* of the call.
C30_Witness ==
    \E h \in Handlers :
        /\ hs[h].pc = "save" /\ C30_NoOp(hs[h])
        /\ hs[h].rec.status = hs[h].existing.status
        /\ hs[h].rec.reservationId = hs[h].existing.reservationId
        /\ hs[h].existing.updatedAt < now
        /\ hs[h].rec.lastCheckedAt = now /\ hs[h].rec.updatedAt = now

\* C29: every message the use case enqueues has topic Availability, eventType
\* Availability.Changed, the saved record's deviceId as subject, and as data
\* exactly deviceId, previousStatus, newStatus, reservationId and updatedAt:
\* deviceId, newStatus and updatedAt (as ISO text) of the saved record, the
\* status read before the write or null when there was no record, and the saved
\* record's reservationId or null when it has none.  The saved record is the one
\* the store holds.
C29_Data(s) ==
    [deviceId |-> s.saved.deviceId,
     previousStatus |-> IF s.existing = NoRecord THEN Null ELSE s.existing.status,
     newStatus |-> s.saved.status,
     reservationId |-> IF s.saved.reservationId = Undefined THEN Null
                       ELSE s.saved.reservationId,
     updatedAt |-> toISOString(s.saved.updatedAt)]

C29_Envelope ==
    \A i \in DOMAIN outbox :
        LET m == outbox[i]
            s == hs["h1"]
        IN /\ s.nEnq = 1 /\ s.nSave = 1
           /\ m.topic = "Availability"
           /\ m.eventType = "Availability.Changed"
           /\ m.subject = s.saved.deviceId
           /\ m.data = C29_Data(s)
           /\ s.rec.id \in DOMAIN store
           /\ s.saved = mapToDomain(store[s.rec.id])
           /\ parseDate(m.data.updatedAt) = now

\* C29 witness: the update of a stored record to another status, clearing its
\* reservation, was enqueued with the status read before, a null reservationId
\* and the time of the write.
C29_Witness ==
    \E i \in DOMAIN outbox :
        /\ outbox[i].data.previousStatus = "Unavailable"
        /\ outbox[i].data.newStatus = "Available"
        /\ outbox[i].data.reservationId = Null
        /\ outbox[i].data.updatedAt = toISOString(now)
        /\ now > 0

\* C27: a publish of the use case appends exactly one message to the outbox, with
\* an id no message has, processed false and retryCount 0, and leaves the bus
\* alone; the outbox grows in no other way; no step of a handler changes the bus,
\* which only the publish step of a dispatcher run does.
C27_Inv ==
    \A i, j \in DOMAIN outbox : outbox[i].id = outbox[j].id => i = j

C27_Step ==
    /\ \A h \in Handlers :
          hs'[h].nEnq = hs[h].nEnq + 1 =>
              /\ hs[h].pc = "publish"
              /\ Len(outbox') = Len(outbox) + 1
              /\ SubSeq(outbox', 1, Len(outbox)) = outbox
              /\ \A i \in DOMAIN outbox : outbox[i].id # outbox'[Len(outbox')].id
              /\ ~outbox'[Len(outbox')].processed
              /\ outbox'[Len(outbox')].retryCount = 0
              /\ bus' = bus
    /\ Len(outbox') # Len(outbox) =>
          \E h \in Handlers : hs'[h].nEnq = hs[h].nEnq + 1
    /\ hs' # hs => bus' = bus
    /\ bus' # bus =>
          /\ hs' = hs /\ outbox' = outbox
          /\ \E k \in Dispatchers : ds[k].pc = "publish" /\ ds'[k].pc = "mark"

C27_OutboxBackedPublish == []C27_Inv /\ [][C27_Step]_vars

\* C27 witness: a call enqueued its event and returned; the message is pending
\* with retryCount 0 and the bus has not been called at all.
C27_Witness ==
    /\ \E h \in Handlers : hs[h].pc = "idle" /\ hs[h].success /\ hs[h].nEnq = 1
    /\ Len(outbox) = 1
    /\ ~outbox[1].processed /\ outbox[1].retryCount = 0
    /\ DOMAIN bus = {}

\* C26: a message whose dispatch fails stays pending and its retryCount is one
\* greater after each failed attempt; no message is ever removed or has its
\* retryCount lowered; a run selects every pending message whatever its
\* retryCount; and a run that selected messages attempts each of them.
C26_Inv ==
    \A k \in Dispatchers :
        ds[k].pc = "idle" /\ ds[k].outcome \in {"finished", "aborted"} =>
            ds[k].attempts = Len(ds[k].batch)

C26_Step ==
    /\ \A k \in Dispatchers :
          /\ ds[k].pc = "fail" /\ ds'[k].pc # "fail" =>
                /\ ~Message(outbox', Current(ds[k])).processed
                /\ Message(outbox', Current(ds[k])).retryCount = ds[k].retry0 + 1
          /\ ds[k].pc = "idle" /\ ds'[k].pc = "publish" =>
                {ds'[k].batch[i] : i \in DOMAIN ds'[k].batch} = PendingIds(outbox)
    /\ \A i \in DOMAIN outbox :
          /\ i \in DOMAIN outbox'
          /\ outbox'[i].id = outbox[i].id
          /\ outbox'[i].retryCount >= outbox[i].retryCount

C26_UnboundedRetry == []C26_Inv /\ [][C26_Step]_vars

\* C28: publishBatch saves the events one at a time in list order: at every
\* moment the outbox holds, after what it held before the call, one pending
\* message per event the loop has passed, in the order of the list; when the save
\* of the k-th event fails the call raises at once, the first k-1 events stay
\* enqueued and no later event is enqueued.
C28_Enqueued(s) ==
    /\ Len(outbox) = s.out0 + s.nEnq
    /\ \A i \in 1..s.nEnq :
          LET m == outbox[s.out0 + i]
          IN /\ m.topic = s.batch[i].topic
             /\ m.eventType = s.batch[i].eventType
             /\ m.subject = s.batch[i].subject
             /\ m.data = s.batch[i].data
             /\ ~m.processed /\ m.retryCount = 0

C28_Inv ==
    LET s == hs["h1"]
    IN /\ C28_Enqueued(s)
       /\ s.pc = "batch" => s.nEnq = s.idx - 1
       /\ s.outcome = "returned" => s.nEnq = Len(s.batch)
       /\ s.outcome = "threw" => s.idx <= Len(s.batch) /\ s.nEnq = s.idx - 1

C28_Step ==
    /\ faultsLeft' < faultsLeft =>
          /\ hs'["h1"].pc = "idle" /\ hs'["h1"].outcome = "threw"
          /\ outbox' = outbox
    /\ Len(outbox') <= Len(outbox) + 1
    /\ SubSeq(outbox', 1, Len(outbox)) = outbox

C28_PublishBatch == []C28_Inv /\ [][C28_Step]_vars

\* C28 witness: of a batch of three events the save of the second failed: the
\* call raised, the first event is enqueued behind the earlier message and the
\* other two are not.
C28_Witness ==
    /\ hs["h1"].outcome = "threw"
    /\ Len(hs["h1"].batch) = 3 /\ hs["h1"].idx = 2
    /\ hs["h1"].out0 = 1 /\ Len(outbox) = 2
    /\ outbox[2].data = hs["h1"].batch[1].data

\* C31: when the store fails the delete of a Catalogue.Device.Deleted event,
\* deleteAvailability returns a failure result and the handler returns without
\* raising: the event is never held for redelivery and the store is left as it
\* was, so a record of the device stays stored.
C31_Inv ==
    /\ \A e \in redeliver : e.eventType # "Catalogue.Device.Deleted"
    /\ \A h \in Handlers :
          hs[h].pc = "idle" /\ hs[h].failedAt = "delete" =>
              ~hs[h].success /\ hs[h].outcome = "returned"

C31_Step ==
    \A h \in Handlers :
        hs[h].pc = "delete" /\ faultsLeft' < faultsLeft =>
            /\ hs'[h].pc = "idle" /\ hs'[h].failedAt = "delete"
            /\ ~hs'[h].success /\ hs'[h].outcome = "returned"
            /\ redeliver' = redeliver
            /\ store' = store /\ outbox' = outbox

C31_DeleteFailureSuppressed == []C31_Inv /\ [][C31_Step]_vars

\* C31 witness: the delete of D1's record failed, the handler returned, nothing
\* waits for redelivery and the record is still stored.
C31_Witness ==
    \E h \in Handlers :
        /\ hs[h].pc = "idle" /\ hs[h].failedAt = "delete"
        /\ hs[h].ev.eventType = "Catalogue.Device.Deleted"
        /\ hs[h].outcome = "returned"
        /\ redeliver = {}
        /\ "D1" \in DOMAIN store

\* C32: when the reconciliations of one device run one after another without
\* store failure or deletion, the events enqueued for it form a chain: the first
\* has previousStatus null, each later one has the newStatus of the one before
\* as its previousStatus, and none has previousStatus equal to newStatus.
C32_ChainContinuity ==
    \A i \in DOMAIN outbox :
        /\ outbox[i].subject = "D1"
        /\ outbox[i].data.previousStatus =
              IF i = 1 THEN Null ELSE outbox[i - 1].data.newStatus
        /\ outbox[i].data.previousStatus # outbox[i].data.newStatus

\* C32 witness: all events were reconciled one after another, the last call
\* saved and enqueued, and the outbox holds the chain null, Unavailable,
\* Available.
C32_Witness ==
    /\ Len(outbox) = 2
    /\ outbox[1].data.previousStatus = Null
    /\ outbox[1].data.newStatus = "Unavailable"
    /\ outbox[2].data.previousStatus = "Unavailable"
    /\ outbox[2].data.newStatus = "Available"
    /\ Cardinality(saves) = 2
    /\ \E h \in Handlers : hs[h].pc = "idle" /\ hs[h].nSave = 1 /\ hs[h].nEnq = 1
    /\ eventsLeft = 0

\* C33: whenever no reconciliation is in progress, the stored status of the
\* device equals the newStatus of the event enqueued last for it.
C33_StoreOutboxAgreement ==
    (\A h \in Handlers : hs[h].pc = "idle") /\ Len(outbox) > 0 =>
        /\ "D1" \in DOMAIN store
        /\ store["D1"].status = outbox[Len(outbox)].data.newStatus

\* C34: with processOutbox invoked without end and the bus and the outbox store
\* accepting the message whenever it is dispatched, the message eventually is
\* processed, whichever pending messages listUnprocessed selects and although
\* more than twenty other pending messages are refused every time.
C34_DeliveryLiveness == <>(Message(outbox, GoodId).processed)

\* C35: the inner catch of processOutbox, and with it markAsFailed, is entered
\* exactly when the publish or the markAsProcessed of the message raised; when
\* markAsFailed is applied the message gets retryCount one greater and the error
\* recorded, also when the bus had accepted it; and retryCount changes in no
\* other way.
C35_Inv ==
    \A k \in Dispatchers :
        ds[k].pc = "fail" =>
            /\ ds[k].error \in {"publish failed", "markAsProcessed failed"}
            /\ ds[k].error = "markAsProcessed failed" =>
                  BusCount(bus, Current(ds[k])) > 0

C35_Step ==
    /\ \A k \in Dispatchers :
          /\ (ds[k].pc # "fail" /\ ds'[k].pc = "fail") <=>
                /\ ds[k].pc \in {"publish", "mark"}
                /\ ds'[k] # ds[k]
                /\ faultsLeft' < faultsLeft
          /\ ds[k].pc = "fail" /\ ds'[k] # ds[k] /\ faultsLeft' = faultsLeft =>
                /\ outbox' = markAsFailed(outbox, Current(ds[k]), ds[k].error)
                /\ Message(outbox', Current(ds[k])).retryCount =
                      Message(outbox, Current(ds[k])).retryCount + 1
                /\ Message(outbox', Current(ds[k])).error = ds[k].error
                /\ ~Message(outbox', Current(ds[k])).processed
    /\ \A i \in DOMAIN outbox :
          outbox'[i].retryCount # outbox[i].retryCount =>
              \E k \in Dispatchers :
                  ds[k].pc = "fail" /\ Current(ds[k]) = outbox[i].id

C35_MarkFailuresCounted == []C35_Inv /\ [][C35_Step]_vars

\* C35 witness: a message the bus accepted once, whose markAsProcessed failed, is
\* pending with retryCount 1 and that error recorded.
C35_Witness ==
    \E i \in DOMAIN outbox :
        /\ BusCount(bus, outbox[i].id) = 1
        /\ ~outbox[i].processed
        /\ outbox[i].retryCount = 1
        /\ outbox[i].error = "markAsProcessed failed"

\* C36: a run of processOutbox never raises: a failing listUnprocessed ends it
\* at once, a failing publish or markAsProcessed leads to the inner catch, a
\* failing markAsFailed ends it through the outer catch; and a run whose
\* listUnprocessed failed or answered with no message publishes nothing and
\* leaves every outbox message as it was.
C36_Inv ==
    \A k \in Dispatchers :
        /\ ds[k].outcome \in {"none", "running", "empty", "listFailed", "finished",
                              "aborted"}
        /\ ds[k].outcome \in {"empty", "listFailed"} =>
              ds[k].pc = "idle" /\ ds[k].attempts = 0 /\ ds[k].batch = <<>>

C36_Step ==
    \A k \in Dispatchers :
        /\ ds[k].pc = "idle" /\ ds'[k].pc = "idle" /\ runsLeft' < runsLeft
           /\ ds'[k].outcome \in {"empty", "listFailed"} =>
              bus' = bus /\ outbox' = outbox
        /\ ds'[k] # ds[k] /\ faultsLeft' < faultsLeft =>
              CASE ds[k].pc = "idle" ->
                      ds'[k].pc = "idle" /\ ds'[k].outcome = "listFailed"
                [] ds[k].pc \in {"publish", "mark"} ->
                      ds'[k].pc = "fail" /\ ds'[k].outcome = "running"
                [] OTHER ->
                      ds'[k].pc = "idle" /\ ds'[k].outcome = "aborted"

C36_DispatcherNeverRaises == []C36_Inv /\ [][C36_Step]_vars

\* C36 witness: one run ended at once because listUnprocessed failed, another
\* finished although a dispatch in it failed, and the failed message is pending.
C36_Witness ==
    /\ \E k \in Dispatchers : ds[k].pc = "idle" /\ ds[k].outcome = "listFailed"
    /\ \E k \in Dispatchers : ds[k].pc = "idle" /\ ds[k].outcome = "finished"
    /\ \E i \in DOMAIN outbox : ~outbox[i].processed /\ outbox[i].retryCount = 1

\* C37: when the handler of a Reservation.Returned, Reservation.Cancelled or
\* Reservation.Expired event has returned on a successful reconciliation, the
\* device's record has status Available and no reservationId, whatever status
\* and reservationId the record had before.
C37_Release ==
    {"Reservation.Returned", "Reservation.Cancelled", "Reservation.Expired"}

C37_ReleaseUnconditional ==
    \A h \in Handlers :
        /\ hs[h].pc = "idle" /\ hs[h].success
        /\ hs[h].ev.eventType \in C37_Release
        => /\ hs[h].deviceId \in DOMAIN store
           /\ getByDeviceId(store, hs[h].deviceId).status = "Available"
           /\ getByDeviceId(store, hs[h].deviceId).reservationId = Undefined
           /\ hs[h].data.status = "Available"
           /\ hs[h].data.reservationId = Undefined

\* C37 witness: a release event carrying reservation R1 was reconciled on a
\* record in Maintenance that had no reservationId; the record is now Available.
C37_Witness ==
    \E h \in Handlers :
        /\ hs[h].pc = "idle" /\ hs[h].success
        /\ hs[h].ev.eventType \in C37_Release
        /\ hs[h].ev.reservationId = "R1"
        /\ hs[h].existing.status = "Maintenance"
        /\ hs[h].existing.reservationId = Undefined
        /\ getByDeviceId(store, "D1").status = "Available"

\* C38: the reconciliation of a Catalogue.Device.Upserted event on an existing
\* record keeps the record's reservationId: the record built, and the record
\* stored when the call has returned, carry the reservationId that was read; and
\* when the record read has a reservationId the call saves even if the status is
\* the one already stored, while without a reservationId such a repeat is skipped.
C38_UpsertKeepsReservation ==
    \A h \in Handlers :
        hs[h].ev.eventType = "Catalogue.Device.Upserted" /\ hs[h].existing # NoRecord =>
            /\ hs[h].reservationId = Undefined
            /\ hs[h].pc = "save" =>
                  hs[h].rec.reservationId = hs[h].existing.reservationId
            /\ hs[h].pc = "idle" /\ hs[h].success =>
                  /\ getByDeviceId(store, hs[h].deviceId).reservationId =
                        hs[h].existing.reservationId
                  /\ getByDeviceId(store, hs[h].deviceId).status = hs[h].newStatus
                  /\ hs[h].existing.reservationId # Undefined => hs[h].nSave = 1
                  /\ /\ hs[h].existing.reservationId = Undefined
                     /\ hs[h].existing.status = hs[h].newStatus
                     => hs[h].nSave = 0

\* C38 witness: an upsert to Available of a record reserved under R1 returned;
\* it saved, and the stored record is Available with reservationId R1.
C38_Witness ==
    \E h \in Handlers :
        /\ hs[h].pc = "idle" /\ hs[h].success
        /\ hs[h].ev.eventType = "Catalogue.Device.Upserted"
        /\ hs[h].existing.reservationId = "R1"
        /\ hs[h].nSave = 1
        /\ getByDeviceId(store, "D1").status = "Available"
        /\ getByDeviceId(store, "D1").reservationId = "R1"

\* C39: a call of updateAvailabilityStatus or deleteAvailability for device d
\* leaves the record of every other device as it was, neither adding nor
\* removing one, and leaves every message already in the outbox as it was;
\* deleteAvailability enqueues nothing; and a reconcile that the skip guard ends
\* returns the stored record as it is, status, reservationId and timestamps,
\* without writing to the store or the outbox.
C39_Inv ==
    \A h \in Handlers :
        /\ hs[h].pc = "idle" /\ hs[h].success
        /\ hs[h].existing # NoRecord /\ hs[h].nSave = 0
        => /\ hs[h].data = hs[h].existing
           /\ hs[h].data = getByDeviceId(store, hs[h].deviceId)
           /\ store = FrameStore
           /\ Len(outbox) = hs[h].out0

C39_Step ==
    /\ \A x \in (DOMAIN store \cup DOMAIN store') \ {hs["h1"].deviceId} :
          x \in DOMAIN store /\ x \in DOMAIN store' /\ store'[x] = store[x]
    /\ \A i \in DOMAIN outbox : i \in DOMAIN outbox' /\ outbox'[i] = outbox[i]
    /\ hs["h1"].pc = "delete" => outbox' = outbox /\ hs'["h1"].pc = "idle"
    /\ hs'["h1"].deviceId = hs["h1"].deviceId

C39_Frame == []C39_Inv /\ [][C39_Step]_vars

\* C39 witness: a reconcile of D1 with the status and reservationId it already
\* has returned, at a later time, the record stamped at time 0, and both
\* records and the earlier message are where they were.
C39_Witness ==
    /\ hs["h1"].pc = "idle" /\ hs["h1"].success
    /\ hs["h1"].deviceId = "D1" /\ hs["h1"].nSave = 0
    /\ hs["h1"].data.reservationId = "R1"
    /\ hs["h1"].data.updatedAt = 0 /\ now > 0
    /\ store = FrameStore /\ outbox = <<BacklogMessage(1)>>

============================================================================
